---- MODULE Spec2Model ----
(***************************************************************************)
(* Percepta: orchestration of a streaming generation across three          *)
(* contexts: the coordinator (service worker), the worker (offscreen       *)
(* document hosting the model sessions) and the UI surfaces.               *)
(*                                                                         *)
(*  - worker lifecycle manager : ensureOffscreenDocument                   *)
(*  - message delivery layer   : sendMessageToOffscreen                    *)
(*  - session store (worker)   : createSession / sendPromptStreaming       *)
(*  - streaming state machine  : handleStreamUpdate / handleStreamComplete *)
(***************************************************************************)
EXTENDS Integers, Sequences, FiniteSets, TLC

(***************************************************************************)
(* Bounds of the model.                                                    *)
(***************************************************************************)
Keys == {1, 2}                 \* conversation keys (tab ids)
MaxCalls == 2                  \* invocations of sendMessageToOffscreen / ensureOffscreenDocument in a run
MaxChunks == 1                 \* chunks the model streams in one generation
MaxFaults == 1                 \* faults in a run (reclaim, hang, late ack, model error, storage error)
CallIds == 1..MaxCalls         \* invocations, numbered in the order they begin

(***************************************************************************)
(* Program constants.                                                      *)
(***************************************************************************)
ProbeRetries == 5              \* for (let i = 0; i < 5; i++)
QuotaCheckEvery == 10          \* chunkCount % 10 === 0

VARIABLES
  doc,             \* the offscreen document: "none" | "loading" | "live" | "hung"
  sessionStore,    \* worker: keys that have a stored session
  gens,            \* worker: generations in progress, GenId -> record
  toCoord,         \* bus worker -> coordinator, in order of emission
  wlog,            \* history: events emitted by each generation
  calls,           \* coordinator: invocations of the delivery layer, CallId -> record
  streamingState,  \* coordinator: recorded phase per key
  sessionMeta,     \* chrome.storage.local session_<tabId>
  convData,        \* chrome.storage.session convData_<tabId>
  conversations,   \* durable conversation record of the key's current conversation
  activeConversations, \* coordinator: keys whose conversation is marked active
  tabs,            \* tabs that exist
  tasks,           \* coordinator: handlers suspended at an await
  uiLog,           \* history: events the coordinator published to the UI bus, by generation
  readySince,      \* history: an ensure call reported ready and the document was not disturbed since
  faults,          \* faults used up
  env,             \* the environment of the run (fixed): how many invocations it
                   \* lets overlap, and the kinds of fault it may inject
  sm,              \* one createSession and one sendPromptStreaming call of the session
                   \* manager, run side by side on the same model stream
  page,            \* one chunkContext call: its input signals and its output
  convStore,       \* chrome.storage.local "conversations" and the calls of
                   \* storeConversation / updateConversation at work on it
  dropped          \* history: the last followupQuestion message the coordinator
                   \* returned on without processing it, and the tab id it resolved

vars == << doc, sessionStore, gens, toCoord, wlog, calls, streamingState,
           sessionMeta, convData, conversations, activeConversations,
           tabs, tasks, uiLog, readySince, faults, env, sm, page, convStore, dropped >>

\* The variables of the extension as a whole.
sysVars == << doc, sessionStore, gens, toCoord, wlog, calls, streamingState,
              sessionMeta, convData, conversations, activeConversations,
              tabs, tasks, uiLog, readySince, faults, env >>

workerVars == << sessionStore, gens, toCoord, wlog >>
coordVars == << streamingState, sessionMeta, convData, conversations,
               activeConversations, tabs, tasks, uiLog >>

None == "none"

\* No followupQuestion message has been returned on.
NoDropped == [tabId |-> 0, question |-> "none", resolved |-> 0]

\* Calls of the conversation store looked at side by side.
MaxOps == 3
OpIds == 1..MaxOps

\* A call of the conversation store that has not begun.
NoOp == [pc |-> "none", kind |-> "none", key |-> 0, id |-> 0, messages |-> << >>, local |-> << >>]

\* The conversation store before anything was stored: an empty list, the
\* clock behind Date.now(), no call at work, no id handed out.
NoStore == [list |-> << >>, clock |-> 0, ops |-> [o \in OpIds |-> NoOp], returned |-> {}]

\* No session manager call / no chunkContext call is being looked at.
IdleRun ==
  [pc |-> "none", rest |-> << >>, fullText |-> << >>, chunkCount |-> 0,
   checks |-> << >>, callbacks |-> << >>, streamingCalls |-> 0,
   stored |-> FALSE, result |-> None, sent |-> << >>]
NoRun == [input |-> << >>, quotaFrom |-> 0, cs |-> IdleRun, sp |-> IdleRun]
NoPage == [in |-> None, out |-> << >>]

(***************************************************************************)
(* Generation ids: a generation is started by one send of one call.        *)
(***************************************************************************)
GenIds == CallIds \X {1, 2}

NoMsg == [action |-> None, tabId |-> 0, type |-> None, meta |-> FALSE]

(* The state of one invocation of sendMessageToOffscreen (or of a bare     *)
(* ensureOffscreenDocument, caller "startup").  The fields after `cause`   *)
(* are history: what this invocation has done so far.                      *)
FreeCall ==
  [ pc |-> "free", caller |-> None, msg |-> NoMsg, attempt |-> 1, i |-> 0,
    ensured |-> None, listening |-> FALSE, heard |-> FALSE, resp |-> None,
    result |-> None, cause |-> None,
    phase0 |-> None,        \* phase of the key when the request was received
    sends |-> 0,            \* chrome.runtime.sendMessage(message) calls
    firstErr |-> None,      \* how the first attempt failed
    retryCloses |-> 0,      \* closeDocument calls of the retry path
    retryEnsures |-> 0,     \* ensureOffscreenDocument calls of the retry path
    retryCreates |-> 0,     \* createDocument requests of the retry path
    eCreates |-> 0,         \* createDocument requests of the current ensure call
    eCloses |-> 0,          \* closeDocument calls of the current ensure call
    ePings |-> 0,           \* probes of the existing instance in the current ensure call
    eProbes |-> 0,          \* probes after creation in the current ensure call
    eOk |-> FALSE,          \* a probe of the current ensure call answered with success
    stable |-> FALSE ]      \* the current ensure call began after a call reported ready, and neither
                            \* the host nor another invocation has touched the worker since

SetCall(c, r) == calls' = [calls EXCEPT ![c] = r]

\* The environment may inject one more fault of this kind.
MayFail(kind) == kind \in env.faults /\ faults < env.budget

(***************************************************************************)
(* The host (browser): what it may do to the offscreen document.           *)
(***************************************************************************)
\* Every change of the document ends the period in which it was ready and undisturbed.
Disturbed(cs) == [c \in CallIds |-> [cs[c] EXCEPT !.stable = FALSE]]

\* The document is gone: every session and every running generation with
\* it ("gone" marks a generation that was destroyed before it ended).
NoGen == [key |-> 0, kind |-> None, type |-> None, st |-> "none", n |-> 0, failed |-> FALSE]

WorkerGone ==
  /\ sessionStore' = {}
  /\ gens' = [g \in GenIds |->
                IF gens[g].st \in {"start", "stream", "fallback"}
                  THEN [gens[g] EXCEPT !.st = "gone"]
                  ELSE gens[g]]

\* The host reclaims the document at a time of its choosing.
HostReclaim ==
  /\ doc # "none"
  /\ MayFail("reclaim")
  /\ faults' = faults + 1
  /\ doc' = "none"
  /\ WorkerGone
  /\ readySince' = FALSE
  /\ calls' = Disturbed(calls)
  /\ UNCHANGED << toCoord, wlog, coordVars, env, sm, page, convStore, dropped >>

\* The document's script has loaded and registered its listener.
DocLoaded ==
  /\ doc = "loading"
  /\ doc' = "live"
  /\ UNCHANGED << workerVars, coordVars, calls, readySince, faults, env, sm, page, convStore, dropped >>

\* The document stops answering (it exists, but no listener runs).
DocHang ==
  /\ doc = "live"
  /\ MayFail("hang")
  /\ faults' = faults + 1
  /\ doc' = "hung"
  /\ readySince' = FALSE
  /\ calls' = Disturbed(calls)
  /\ WorkerGone          \* nothing in a hung document runs or is reached again
  /\ UNCHANGED << toCoord, wlog, coordVars, env, sm, page, convStore, dropped >>

(***************************************************************************)
(* Worker lifecycle manager: ensureOffscreenDocument.                      *)
(***************************************************************************)
\* What a {action: "ping"} round trip raced against the 2 s deadline gives:
\* "ok" a response with success, "throw" a rejection or the deadline,
\* "nosuccess" a response without success (another context's listener
\* closed the channel without answering).
PingOutcomes(d) ==
  CASE d = "live" -> {"ok"}
    [] d = "hung" -> {"throw"}
    [] OTHER -> {"throw", "nosuccess"}

\* The call enters ensureOffscreenDocument.
EnsureEnter(r, undisturbed) ==
  [r EXCEPT !.pc = "getContexts", !.i = 0, !.ensured = None,
            !.eCreates = 0, !.eCloses = 0, !.ePings = 0, !.eProbes = 0,
            !.eOk = FALSE, !.stable = undisturbed]

\* ensureOffscreenDocument returns; its caller goes on.
EnsureReturn(r, res) ==
  [r EXCEPT !.ensured = res,
            !.pc = IF r.caller = "startup" THEN "done"
                   ELSE IF r.attempt = 1 THEN "send" ELSE "send2",
            !.result = IF r.caller = "startup" THEN "ok" ELSE r.result]

\* A variant of the lookup that never finds the document (C4 tells it apart).
EnsureGetContextsNoLookup(c) ==
  /\ calls[c].pc = "getContexts"
  /\ SetCall(c, [calls[c] EXCEPT !.pc = "create"])
  /\ UNCHANGED << doc, workerVars, coordVars, readySince, faults, env, sm, page, convStore, dropped >>

\* chrome.runtime.getContexts: is there an offscreen document?
EnsureGetContexts(c) ==
  /\ calls[c].pc = "getContexts"
  /\ SetCall(c, [calls[c] EXCEPT !.pc = IF doc # "none" THEN "ping0" ELSE "create"])
  /\ UNCHANGED << doc, workerVars, coordVars, readySince, faults, env, sm, page, convStore, dropped >>

\* The probe of the existing instance.
EnsurePingExisting(c) ==
  /\ calls[c].pc = "ping0"
  /\ \E o \in PingOutcomes(doc) :
       LET r == [calls[c] EXCEPT !.ePings = @ + 1] IN
       CASE o = "ok" ->
              /\ SetCall(c, EnsureReturn([r EXCEPT !.eOk = TRUE], "ready"))
              /\ readySince' = TRUE
         [] o = "throw" ->
              /\ SetCall(c, [r EXCEPT !.pc = "close0"])
              /\ UNCHANGED readySince
         [] OTHER ->
              /\ SetCall(c, [r EXCEPT !.pc = "create"])
              /\ UNCHANGED readySince
  /\ UNCHANGED << doc, workerVars, coordVars, faults, env, sm, page, convStore, dropped >>

\* chrome.offscreen.closeDocument(): closes the document if there is one;
\* rejects (ignored by both callers) if there is none.
CloseDocument ==
  IF doc # "none"
    THEN /\ doc' = "none"
         /\ WorkerGone
         /\ readySince' = FALSE
    ELSE UNCHANGED << doc, sessionStore, gens, readySince >>

\* The existing instance did not answer: close it, errors ignored.
EnsureCloseExisting(c) ==
  /\ calls[c].pc = "close0"
  /\ CloseDocument
  /\ calls' = [Disturbed(calls) EXCEPT ![c] =
                 [calls[c] EXCEPT !.pc = "create", !.eCloses = @ + 1]]
  /\ UNCHANGED << toCoord, wlog, coordVars, faults, env, sm, page, convStore, dropped >>

\* chrome.offscreen.createDocument, then delay(500).  The host rejects the
\* request while a document exists; ensureOffscreenDocument then returns false.
EnsureCreate(c) ==
  /\ calls[c].pc = "create"
  /\ LET r == [calls[c] EXCEPT !.eCreates = @ + 1,
                               !.retryCreates = IF calls[c].attempt = 2 THEN @ + 1 ELSE @]
     IN IF doc = "none"
          THEN /\ doc' = "loading"
               /\ readySince' = FALSE
               /\ calls' = [Disturbed(calls) EXCEPT ![c] = [r EXCEPT !.pc = "probe", !.i = 0]]
          ELSE /\ SetCall(c, EnsureReturn(r, "failed"))
               /\ UNCHANGED << doc, readySince >>
  /\ UNCHANGED << workerVars, coordVars, faults, env, sm, page, convStore, dropped >>

\* A variant of the readiness loop with one turn more (C5 tells it apart).
EnsureProbeOneMore(c) ==
  /\ calls[c].pc = "probe"
  /\ calls[c].i <= ProbeRetries
  /\ \E o \in PingOutcomes(doc) :
       LET r == [calls[c] EXCEPT !.eProbes = @ + 1] IN
       IF o = "ok"
         THEN /\ SetCall(c, EnsureReturn([r EXCEPT !.eOk = TRUE], "ready"))
              /\ readySince' = TRUE
         ELSE /\ SetCall(c, IF r.i + 1 <= ProbeRetries
                              THEN [r EXCEPT !.i = @ + 1]
                              ELSE EnsureReturn([r EXCEPT !.i = @ + 1], "failed"))
              /\ UNCHANGED readySince
  /\ UNCHANGED << doc, workerVars, coordVars, faults, env, sm, page, convStore, dropped >>

\* One turn of the readiness loop: a probe, then delay(200) if it threw.
\* After the last turn without success the call returns false.
EnsureProbe(c) ==
  /\ calls[c].pc = "probe"
  /\ calls[c].i < ProbeRetries
  /\ \E o \in PingOutcomes(doc) :
       LET r == [calls[c] EXCEPT !.eProbes = @ + 1] IN
       IF o = "ok"
         THEN /\ SetCall(c, EnsureReturn([r EXCEPT !.eOk = TRUE], "ready"))
              /\ readySince' = TRUE
         ELSE /\ SetCall(c, IF r.i + 1 < ProbeRetries
                              THEN [r EXCEPT !.i = @ + 1]
                              ELSE EnsureReturn([r EXCEPT !.i = @ + 1], "failed"))
              /\ UNCHANGED readySince
  /\ UNCHANGED << doc, workerVars, coordVars, faults, env, sm, page, convStore, dropped >>

(***************************************************************************)
(* Session store (worker side): offscreen.js and ai/sessionManager.js.     *)
(***************************************************************************)
\* Texts.  The answer of a generation is identified by the number of chunks
\* merged into it; an error text by its message.
Answer(n) == [ok |-> TRUE, n |-> n, err |-> ""]
ErrorText(m) == [ok |-> FALSE, n |-> 0, err |-> m]

\* Errors the model API raises: [code, name, tooLarge]
\* (tooLarge: the message includes "input is too large").
Err(code, name, tooLarge) == [code |-> code, name |-> name, tooLarge |-> tooLarge]

\* createLanguageModel's failures, as tagged by its catch block.
ModelErrors ==
  { Err("LANGUAGE_MODEL_UNAVAILABLE", "Error", FALSE),
    Err("LANGUAGE_MODEL_CREATION_FAILED", "Error", FALSE),
    Err("QUOTA_EXCEEDED", "QuotaExceededError", FALSE),
    Err("QUOTA_EXCEEDED", "QuotaExceededError", TRUE),
    Err("NETWORK_ERROR", "NetworkError", FALSE) }

\* Failures of the model's stream.
StreamErrors ==
  { Err(None, "NetworkError", FALSE),
    Err(None, "QuotaExceededError", FALSE),
    Err(None, "Error", FALSE) }

\* getErrorMessage: error code/name -> message key (en and es share the keys).
getErrorMessage(error) ==
  IF error.code = "LANGUAGE_MODEL_UNAVAILABLE" THEN "error_language_model_unavailable"
  ELSE IF error.code = "LANGUAGE_MODEL_CREATION_FAILED" THEN "error_language_model_failed"
  ELSE IF error.code = "QUOTA_EXCEEDED" \/ error.name = "QuotaExceededError"
    THEN (IF error.tooLarge THEN "error_input_too_large" ELSE "error_quota_exceeded")
  ELSE IF error.code = "NETWORK_ERROR" \/ error.name = "NetworkError" THEN "error_network"
  ELSE IF error.code = "IMAGE_PROCESSING_ERROR" THEN "error_image_processing"
  ELSE IF error.code = "SESSION_NOT_FOUND" THEN "error_session_not_found"
  ELSE "error_generic"

\* A result of createSession / sendPromptStreaming.
Success(text) == [success |-> TRUE, response |-> text, userMessage |-> "", error |-> "", partialResponse |-> Answer(0)]
Failure(userMessage, error, partial) ==
  [success |-> FALSE, response |-> Answer(0), userMessage |-> userMessage, error |-> error, partialResponse |-> partial]

\* A message on the bus from the worker.  `gen` is history: the generation
\* that emitted it (the program sees action, tabId and the text only).
StreamUpdate(k, text, g) == [action |-> "streamUpdate", tabId |-> k, text |-> text, gen |-> g]
StreamComplete(k, text, g) == [action |-> "streamComplete", tabId |-> k, text |-> text, gen |-> g]

\* A variant whose streamComplete carries the generic text whatever the
\* failure was (C10 tells it apart).
ResultEventsGenericText(k, result, g) ==
  IF result.success
    THEN << StreamComplete(k, result.response, g) >>
    ELSE LET errorMessage == IF result.userMessage # "" THEN result.userMessage
                             ELSE IF result.error # "" THEN result.error
                             ELSE "error_generic"
         IN << StreamUpdate(k, ErrorText(errorMessage), g),
               StreamComplete(k, ErrorText("error_generic"), g) >>

\* offscreen.js, the .then() of createSession / sendPromptStreaming: what the
\* worker puts on the bus for a result.
ResultEvents(k, result, g) ==
  IF result.success
    THEN << StreamComplete(k, result.response, g) >>
    ELSE LET errorMessage == IF result.userMessage # "" THEN result.userMessage
                             ELSE IF result.error # "" THEN result.error
                             ELSE "error_generic"
         IN << StreamUpdate(k, ErrorText(errorMessage), g),
               StreamComplete(k, ErrorText(errorMessage), g) >>

Emit(g, evs) ==
  /\ toCoord' = toCoord \o evs
  /\ wlog' = [wlog EXCEPT ![g] = @ \o evs]

\* The generation returns `result`: the .then() handler runs.
GenReturn(g, result) ==
  /\ gens' = [gens EXCEPT ![g] = [@ EXCEPT !.st = "done", !.failed = ~result.success]]
  /\ Emit(g, ResultEvents(gens[g].key, result, g))

NewGen(k, kind, type) ==
  [key |-> k, kind |-> kind, type |-> type, st |-> "start", n |-> 0, failed |-> FALSE]

\* The onMessage listener of the worker handles `msg` (sendResponse included);
\* a generation it starts is generation g.
WorkerOnMessage(msg, g) ==
  CASE msg.action = "createSession" ->
         /\ gens' = [gens EXCEPT ![g] = NewGen(msg.tabId, "create", msg.type)]
         /\ UNCHANGED << sessionStore, toCoord, wlog >>
    [] msg.action = "sendPrompt" ->
         IF msg.tabId \in sessionStore
           THEN /\ gens' = [gens EXCEPT ![g] = NewGen(msg.tabId, "prompt", None)]
                /\ UNCHANGED << sessionStore, toCoord, wlog >>
           ELSE \* sendPromptStreaming returns at once: session not found
                /\ gens' = [gens EXCEPT ![g] =
                              [NewGen(msg.tabId, "prompt", None) EXCEPT !.st = "done", !.failed = TRUE]]
                /\ Emit(g, ResultEvents(msg.tabId,
                             Failure(getErrorMessage(Err("SESSION_NOT_FOUND", "Error", FALSE)),
                                     "Session not found", Answer(0)), g))
                /\ UNCHANGED sessionStore
    [] msg.action = "deleteSession" ->
         /\ sessionStore' = sessionStore \ {msg.tabId}
         /\ UNCHANGED << gens, toCoord, wlog >>
    [] OTHER -> UNCHANGED << sessionStore, gens, toCoord, wlog >>

Running(g) == gens[g].st \in {"start", "stream", "fallback"}

\* createSession up to the streaming call: createLanguageModel, checkQuota,
\* base64ToBlob / createImageBitmapFromBlob (the session type is "screenshot"
\* or "image" in every createSession message the coordinator builds).
\* sendPromptStreaming up to the streaming call: checkQuota.
GenStart(g) ==
  /\ gens[g].st = "start"
  /\ doc = "live"
  /\ \/ /\ gens' = [gens EXCEPT ![g] = [@ EXCEPT !.st = "stream"]]
        /\ UNCHANGED << toCoord, wlog, faults >>
     \/ /\ MayFail("model")
        /\ faults' = faults + 1
        /\ \/ \E e \in ModelErrors :
                /\ gens[g].kind = "create"
                /\ GenReturn(g, Failure(getErrorMessage(e), "Session creation failed", Answer(0)))
           \/ GenReturn(g, Failure("error_quota_exceeded", "Quota exceeded", Answer(0)))
           \/ /\ gens[g].kind = "create"
              /\ GenReturn(g, Failure(getErrorMessage(Err("IMAGE_PROCESSING_ERROR", "Error", FALSE)),
                                      "Image processing failed", Answer(0)))
  /\ UNCHANGED << doc, sessionStore, coordVars, calls, readySince, env, sm, page, convStore, dropped >>

\* One chunk of the stream: every 10th chunk re-checks the quota, then the
\* chunk is merged into the buffer and the stream callback is invoked.
GenChunk(g) ==
  /\ gens[g].st = "stream"
  /\ doc = "live"
  /\ gens[g].n < MaxChunks
  /\ LET chunkCount == gens[g].n + 1 IN
       \/ /\ gens' = [gens EXCEPT ![g] = [@ EXCEPT !.n = chunkCount]]
          /\ Emit(g, << StreamUpdate(gens[g].key, Answer(chunkCount), g) >>)
          /\ UNCHANGED faults
       \/ /\ chunkCount % QuotaCheckEvery = 0
          /\ MayFail("model")
          /\ faults' = faults + 1
          /\ GenReturn(g, Failure("error_quota_exceeded", "Quota exceeded during streaming",
                                  Answer(gens[g].n)))
  /\ UNCHANGED << doc, sessionStore, coordVars, calls, readySince, env, sm, page, convStore, dropped >>

\* A variant that stores the session although the stream threw (C18 tells
\* it apart).
GenStreamErrorStores(g) ==
  /\ gens[g].st = "stream"
  /\ doc = "live"
  /\ MayFail("model")
  /\ faults' = faults + 1
  /\ sessionStore' = sessionStore \cup {gens[g].key}
  /\ \E e \in StreamErrors :
       GenReturn(g, Failure(getErrorMessage(e), "Streaming failed", Answer(gens[g].n)))
  /\ UNCHANGED << doc, coordVars, calls, readySince, env, sm, page, convStore, dropped >>

\* The stream throws.
GenStreamError(g) ==
  /\ gens[g].st = "stream"
  /\ doc = "live"
  /\ MayFail("model")
  /\ faults' = faults + 1
  /\ \E e \in StreamErrors :
       GenReturn(g, Failure(getErrorMessage(e), "Streaming failed", Answer(gens[g].n)))
  /\ UNCHANGED << doc, sessionStore, coordVars, calls, readySince, env, sm, page, convStore, dropped >>

\* The stream ends.  createSession stores the session and returns the text;
\* sendPromptStreaming returns the text, or falls back to prompt() when the
\* stream gave no chunk.
GenFinish(g) ==
  /\ gens[g].st = "stream"
  /\ doc = "live"
  /\ IF gens[g].kind = "create"
       THEN /\ sessionStore' = sessionStore \cup {gens[g].key}
            /\ GenReturn(g, Success(Answer(gens[g].n)))
       ELSE /\ UNCHANGED sessionStore
            /\ IF gens[g].n = 0
                 THEN /\ gens' = [gens EXCEPT ![g] = [@ EXCEPT !.st = "fallback"]]
                      /\ UNCHANGED << toCoord, wlog >>
                 ELSE GenReturn(g, Success(Answer(gens[g].n)))
  /\ UNCHANGED << doc, coordVars, calls, readySince, faults, env, sm, page, convStore, dropped >>

\* The fallback session.prompt() of sendPromptStreaming answers or throws.
GenFallback(g) ==
  /\ gens[g].st = "fallback"
  /\ doc = "live"
  /\ \/ /\ gens' = [gens EXCEPT ![g] = [@ EXCEPT !.st = "done", !.n = 1]]
        /\ Emit(g, << StreamUpdate(gens[g].key, Answer(1), g),
                      StreamComplete(gens[g].key, Answer(1), g) >>)
        /\ UNCHANGED faults
     \/ /\ GenReturn(g, Success(Answer(0)))
        /\ UNCHANGED faults
     \/ /\ MayFail("model")
        /\ faults' = faults + 1
        /\ \E e \in StreamErrors :
             GenReturn(g, Failure(getErrorMessage(e), "Prompt failed", Answer(0)))
  /\ UNCHANGED << doc, sessionStore, coordVars, calls, readySince, env, sm, page, convStore, dropped >>

(***************************************************************************)
(* Message delivery layer: sendMessageToOffscreen.                         *)
(***************************************************************************)
\* isStreamingAction: createSession, and every sendPrompt whose prompt text
\* does not include "perceptaActions:" (msg.meta: it does).
isStreamingAction(msg) ==
  \/ msg.action = "createSession"
  \/ msg.action = "sendPrompt" /\ ~msg.meta

\* What chrome.runtime.sendMessage(message) raced against the deadline will
\* give, by the state of the document when the message is sent:
\* "ack" the worker's response; "late" the worker handled the message but the
\* deadline expired first; "timeout" the deadline expired, nothing handled it;
\* "reject" no receiving end; "empty" the channel closed without a response.
SendOutcomes(d) ==
  CASE d = "live" -> {"ack", "late"}
    [] d = "hung" -> {"timeout"}
    [] OTHER -> {"reject", "empty"}

\* A variant of the catch block's test that takes every failure for a
\* transport error.
IsAnyError(resp) == resp # "ack"

\* The catch block's test: error.message includes "Receiving end does not
\* exist", "Could not establish connection", "Timeout" or "did not start".
IsTransportError(resp) == resp \in {"reject", "timeout", "late"}

\* The message of the error an outcome raises, on the retry or on the first
\* attempt of a streaming / non-streaming action.
ErrorMessage(resp, retry, streaming) ==
  CASE resp = "reject" -> "Could not establish connection. Receiving end does not exist."
    [] resp \in {"timeout", "late"} ->
         IF retry THEN "Timeout on retry"
         ELSE IF streaming THEN "Timeout waiting for generation start"
         ELSE "Timeout after 30s"
    [] OTHER ->
         IF retry THEN "No response from offscreen document on retry"
         ELSE IF streaming THEN "No acknowledgment from offscreen document"
         ELSE "No response from offscreen document"

\* A variant that reports the first failure instead (C2 tells it apart).
RetryCauseOfFirst(r) == ErrorMessage(r.firstErr, FALSE, isStreamingAction(r.msg))

\* The message the error thrown after a failed retry carries:
\* `Failed after retry: ${retryError.message}`.
RetryCause(r) == ErrorMessage(r.resp, TRUE, isStreamingAction(r.msg))

\* chrome.runtime.sendMessage(message): the worker handles the message if
\* its listener runs.
Transmit(c, att, o) ==
  /\ o \in SendOutcomes(doc)
  /\ o = "late" => MayFail("late")
  /\ faults' = IF o = "late" THEN faults + 1 ELSE faults
  /\ IF doc = "live"
       THEN WorkerOnMessage(calls[c].msg, << c, att >>)
       ELSE UNCHANGED << sessionStore, gens, toCoord, wlog >>

\* First attempt: delay(200), register the stream listener for a streaming
\* action, send the message.
SendFirst(c) ==
  /\ calls[c].pc = "send"
  /\ \E o \in SendOutcomes(doc) :
       /\ Transmit(c, 1, o)
       /\ SetCall(c, [calls[c] EXCEPT !.pc = "resp", !.resp = o, !.sends = @ + 1,
                                      !.listening = isStreamingAction(calls[c].msg)])
  /\ UNCHANGED << doc, coordVars, readySince, env, sm, page, convStore, dropped >>

\* The call goes on; or the call settles and its caller's continuation runs:
\* generateActionButtons' .catch deletes the key's streaming state, the other
\* callers log the error.
Continue(c, r) == SetCall(c, r) /\ UNCHANGED streamingState
\* What is kept of an invocation once it has settled: its request, its
\* outcome and the history of its attempts.
Settle(r) ==
  [FreeCall EXCEPT !.pc = r.pc, !.caller = r.caller, !.msg = r.msg, !.phase0 = r.phase0,
                   !.result = r.result, !.cause = r.cause, !.resp = r.resp,
                   !.sends = r.sends, !.firstErr = r.firstErr,
                   !.retryCloses = r.retryCloses, !.retryEnsures = r.retryEnsures,
                   !.retryCreates = r.retryCreates]
Finish(c, r) ==
  /\ SetCall(c, Settle(r))
  /\ streamingState' = IF r.caller = "meta" /\ r.result # "ok"
                         THEN [streamingState EXCEPT ![r.msg.tabId] = "idle"]
                         ELSE streamingState

\* First attempt: the raced promise settles.
AwaitFirst(c) ==
  /\ calls[c].pc = "resp"
  /\ LET r == calls[c] IN
       IF IsTransportError(r.resp)
         THEN Continue(c, [r EXCEPT !.pc = "close2", !.listening = FALSE, !.firstErr = r.resp])
       ELSE IF r.resp = "empty"
         THEN Finish(c, [r EXCEPT !.pc = "done", !.listening = FALSE, !.result = "error",
                                  !.cause = ErrorMessage(r.resp, FALSE, isStreamingAction(r.msg))])
       ELSE IF isStreamingAction(r.msg) /\ ~r.heard
         THEN Continue(c, [r EXCEPT !.pc = "grace"])
       ELSE Finish(c, [r EXCEPT !.pc = "done", !.listening = FALSE, !.result = "ok"])
  /\ UNCHANGED << doc, workerVars, sessionMeta, convData, conversations,
                  activeConversations, tabs, tasks, uiLog, readySince, faults, env, sm, page, convStore, dropped >>

\* The grace window ends: a stream update was heard, or 10 s went by.
\* The response is returned in both cases.
GraceEnd(c) ==
  /\ calls[c].pc = "grace"
  /\ Finish(c, [calls[c] EXCEPT !.pc = "done", !.listening = FALSE, !.result = "ok"])
  /\ UNCHANGED << doc, workerVars, sessionMeta, convData, conversations,
                  activeConversations, tabs, tasks, uiLog, readySince, faults, env, sm, page, convStore, dropped >>

\* A variant of the retry path that closes the document and sends again
\* without ensureOffscreenDocument (C3 tells it apart).
RetryCloseOnly(c) ==
  /\ calls[c].pc = "close2"
  /\ CloseDocument
  /\ calls' = [Disturbed(calls) EXCEPT ![c] =
                 [calls[c] EXCEPT !.pc = "send2", !.attempt = 2, !.retryCloses = @ + 1]]
  /\ UNCHANGED << toCoord, wlog, coordVars, faults, env, sm, page, convStore, dropped >>

\* Retry path: closeDocument (errors ignored), then ensureOffscreenDocument.
RetryClose(c) ==
  /\ calls[c].pc = "close2"
  /\ CloseDocument
  /\ calls' = [Disturbed(calls) EXCEPT ![c] =
                 EnsureEnter([calls[c] EXCEPT !.attempt = 2, !.retryCloses = @ + 1,
                                              !.retryEnsures = @ + 1], FALSE)]
  /\ UNCHANGED << toCoord, wlog, coordVars, faults, env, sm, page, convStore, dropped >>

\* Retry: delay(500), send the message again.
SendRetry(c) ==
  /\ calls[c].pc = "send2"
  /\ \E o \in SendOutcomes(doc) :
       /\ Transmit(c, 2, o)
       /\ SetCall(c, [calls[c] EXCEPT !.pc = "resp2", !.resp = o, !.sends = @ + 1])
  /\ UNCHANGED << doc, coordVars, readySince, env, sm, page, convStore, dropped >>

\* A variant of the retry that returns whatever the race gave.
AwaitRetryUnexamined(c) ==
  /\ calls[c].pc = "resp2"
  /\ Finish(c, [calls[c] EXCEPT !.pc = "done", !.result = "ok"])
  /\ UNCHANGED << doc, workerVars, sessionMeta, convData, conversations,
                  activeConversations, tabs, tasks, uiLog, readySince, faults, env, sm, page, convStore, dropped >>

\* Retry: the raced promise settles; a failure is wrapped in
\* "Failed after retry: <message>" and thrown.
AwaitRetry(c) ==
  /\ calls[c].pc = "resp2"
  /\ LET r == calls[c] IN
       IF r.resp = "ack"
         THEN Finish(c, [r EXCEPT !.pc = "done", !.result = "ok"])
         ELSE Finish(c, [r EXCEPT !.pc = "done", !.result = "failedAfterRetry",
                                  !.cause = RetryCause(r)])
  /\ UNCHANGED << doc, workerVars, sessionMeta, convData, conversations,
                  activeConversations, tabs, tasks, uiLog, readySince, faults, env, sm, page, convStore, dropped >>

(***************************************************************************)
(* Streaming state machine (coordinator side): messageHandlers.js,         *)
(* screenshot.js, contextMenus.js, sessionMetadata.js, tabEvents.js.       *)
(***************************************************************************)
\* The flags of a recorded phase:
\*   initial  {isFollowup: false, initialized: true, isActionButtons: false}
\*   followup {isFollowup: true}
\*   meta     {isFollowup: true, isActionButtons: true, generatingTitle: true}
IsFollowup(phase) == phase \in {"followup", "meta"}
IsActionButtons(phase) == phase = "meta"

NoText == [ok |-> TRUE, n |-> 0 - 1, err |-> ""]
NoConvData == [exists |-> FALSE, conversationId |-> FALSE, firstResponse |-> NoText]
NoTask == [pc |-> "none", key |-> 0, text |-> NoText, seen |-> << >>]

\* A message the coordinator publishes to the UI bus.  `gen` and `by` are
\* history: the generation it belongs to and the handler that published it.
UiEvent(action, k, text, phase, g, by) ==
  [action |-> action, tabId |-> k, text |-> text,
   isFollowup |-> IsFollowup(phase), isActionButtons |-> IsActionButtons(phase),
   gen |-> g, by |-> by]

\* Invocations that have begun and have not settled.
InFlight == {c \in CallIds : calls[c].pc \notin {"free", "done", "aborted"}}
\* One more invocation may begin.
CanCall ==
  /\ Cardinality(InFlight) < env.overlap
  /\ \E c \in CallIds : calls[c].pc = "free"
\* The number the next invocation gets.
NextCall ==
  CHOOSE c \in CallIds :
    /\ calls[c].pc = "free"
    /\ \A d \in CallIds : calls[d].pc = "free" => c <= d

PromptMsg(k, meta) == [action |-> "sendPrompt", tabId |-> k, type |-> None, meta |-> meta]
CreateMsg(k, type) == [action |-> "createSession", tabId |-> k, type |-> type, meta |-> FALSE]
DeleteMsg(k) == [action |-> "deleteSession", tabId |-> k, type |-> None, meta |-> FALSE]

\* cleanupStreamingState(tabId)
cleanupStreamingState(ss, k) == [ss EXCEPT ![k] = "idle"]

QuestionText == [ok |-> TRUE, n |-> 0 - 2, err |-> ""]
\* A title: its text and its length in characters.
Title(text, length) == [text |-> text, length |-> length]
NoTitle == Title("", 0)
MaxTitleLen == 50

\* What the text of a title/actions turn looks like.  "quoted":
\*   perceptaTitle: "A Title" / perceptaActions: ["Q1","Q2"]
\* "bare": perceptaTitle: A Title (no quotes) / perceptaActions: []
\* "long": a quoted title of 60 characters / perceptaActions: ['Q1']
\* "untitled": perceptaActions: ["Q1","Q2"] and no title marker.
\* "plain": neither marker (an error message, an empty text, free prose).
ResponseShapes == {"quoted", "bare", "long", "untitled", "plain"}
\* The generated text may have any shape; an error text and the empty text
\* have no marker.
ShapesOf(text) == IF text.ok /\ text.n >= 1 THEN ResponseShapes ELSE {"plain"}

\* A variant that never finds a title (C20 tells it apart).
parseTitleFromResponseUntitled(response) == Title("Untitled Conversation", 21)

\* parseTitleFromResponse: the quoted form, else the rest of the line, else
\* "Untitled Conversation"; at most 50 characters (47 and "...").
parseTitleFromResponse(response) ==
  LET match == CASE response = "quoted" -> Title("A Title", 7)
                 [] response = "bare" -> Title("A Title", 7)
                 [] response = "long" -> Title("A Long Title", 60)
                 [] OTHER -> NoTitle
  IN IF match # NoTitle
       THEN (IF match.length > MaxTitleLen
               THEN Title(match.text \o "...", 47 + 3)
               ELSE match)
       ELSE Title("Untitled Conversation", 21)

\* A variant that looks for the actions only after a title was found.
parseActionsFromResponseTitled(response) ==
  CASE response = "quoted" -> << "Q1", "Q2" >>
    [] response = "long" -> << "Q1" >>
    [] OTHER -> << >>

\* parseActionsFromResponse: the quoted items between the brackets; null
\* (here the empty list, which it never returns otherwise) without them.
parseActionsFromResponse(response) ==
  CASE response = "quoted" -> << "Q1", "Q2" >>
    [] response = "long" -> << "Q1" >>
    [] response = "untitled" -> << "Q1", "Q2" >>
    [] OTHER -> << >>

\* A stored conversation.  titleResponse is history: the shape of the text
\* the title and the actions were parsed from.
NoConversation ==
  [exists |-> FALSE, messages |-> << >>, title |-> NoTitle, actionButtons |-> << >>,
   titleResponse |-> "plain"]
Message(role, content) == [role |-> role, content |-> content]

\* JavaScript truthiness of a text: the empty string is falsy.
Truthy(text) == text # NoText /\ ~(text.ok /\ text.n = 0)

\* captureAndProcessScreenshot (type "screenshot") / generateFromImage (type
\* "image") up to storeSessionMetadata.
AnalyzePage(k, type) ==
  /\ k \in tabs
  /\ CanCall
  /\ streamingState' = IF type = "screenshot"
                         THEN cleanupStreamingState(streamingState, k)
                         ELSE streamingState
  /\ sessionMeta' = [sessionMeta EXCEPT ![k] = TRUE]
  /\ SetCall(NextCall, [FreeCall EXCEPT !.pc = "analyze", !.caller = type,
                                        !.msg = CreateMsg(k, type),
                                        !.phase0 = streamingState[k]])
  /\ UNCHANGED << doc, workerVars, convData, conversations, activeConversations,
                  tabs, tasks, uiLog, readySince, faults, env, sm, page, convStore, dropped >>

\* ... initializeConversationData, then sendMessageToOffscreen(createSession).
AnalyzeSend(c) ==
  /\ calls[c].pc = "analyze"
  /\ convData' = [convData EXCEPT ![calls[c].msg.tabId] =
                    [exists |-> TRUE, conversationId |-> FALSE, firstResponse |-> NoText]]
  /\ SetCall(c, EnsureEnter(calls[c], readySince))
  /\ UNCHANGED << doc, workerVars, streamingState, sessionMeta, conversations,
                  activeConversations, tabs, tasks, uiLog, readySince, faults, env, sm, page, convStore, dropped >>

\* handleFollowupQuestion up to streamingState.set(tabId, {isFollowup: true}).
FollowupQuestion(k) ==
  /\ sessionMeta[k]
  /\ CanCall
  /\ streamingState' = [streamingState EXCEPT ![k] = "followup"]
  /\ SetCall(NextCall, [FreeCall EXCEPT !.pc = "followup", !.caller = "followup",
                                        !.msg = PromptMsg(k, FALSE),
                                        !.phase0 = streamingState[k]])
  /\ UNCHANGED << doc, workerVars, sessionMeta, convData, conversations,
                  activeConversations, tabs, tasks, uiLog, readySince, faults, env, sm, page, convStore, dropped >>

\* ... the user's question is appended to the durable record (if the key has
\* one), then sendMessageToOffscreen(sendPrompt).  If persisting throws, the
\* handler logs the error and returns.
FollowupSend(c) ==
  /\ calls[c].pc = "followup"
  /\ LET k == calls[c].msg.tabId
         has == convData[k].exists /\ convData[k].conversationId /\ conversations[k].exists
     IN \/ /\ conversations' = IF has
                                 THEN [conversations EXCEPT ![k].messages =
                                         Append(@, Message("user", QuestionText))]
                                 ELSE conversations
           /\ SetCall(c, EnsureEnter(calls[c], readySince))
           /\ UNCHANGED faults
        \/ /\ has
           /\ MayFail("storage")
           /\ faults' = faults + 1
           /\ SetCall(c, [calls[c] EXCEPT !.pc = "aborted"])
           /\ UNCHANGED conversations
  /\ UNCHANGED << doc, workerVars, streamingState, sessionMeta, convData,
                  activeConversations, tabs, tasks, uiLog, readySince, env, sm, page, convStore, dropped >>

\* chrome.tabs.onRemoved: removeSessionMetadata, then
\* sendMessageToOffscreen(deleteSession).
TabRemoved(k) ==
  /\ k \in tabs
  /\ CanCall
  /\ tabs' = tabs \ {k}
  /\ sessionMeta' = [sessionMeta EXCEPT ![k] = FALSE]
  /\ SetCall(NextCall, EnsureEnter([FreeCall EXCEPT !.caller = "tabRemoved",
                                                    !.msg = DeleteMsg(k),
                                                    !.phase0 = streamingState[k]], readySince))
  /\ UNCHANGED << doc, workerVars, streamingState, convData, conversations,
                  activeConversations, tasks, uiLog, readySince, faults, env, sm, page, convStore, dropped >>

\* chrome.runtime.onStartup / onInstalled: ensureOffscreenDocument().
Startup ==
  /\ CanCall
  /\ SetCall(NextCall, EnsureEnter([FreeCall EXCEPT !.caller = "startup"], readySince))
  /\ UNCHANGED << doc, workerVars, coordVars, readySince, faults, env, sm, page, convStore, dropped >>

\* The UI bus: a publish throws only if no context at all is listening,
\* which cannot be while the worker's listener runs.
PublishOutcomes == IF doc = "live" THEN {TRUE} ELSE {TRUE, FALSE}

\* A variant that forwards a streamUpdate ahead of the ones forwarded
\* before it (C7 tells it apart).
HandleStreamUpdateOutOfOrder ==
  /\ toCoord # << >>
  /\ Head(toCoord).action = "streamUpdate"
  /\ LET ev == Head(toCoord)
         k == ev.tabId
         phase == IF streamingState[k] = "idle" THEN "initial" ELSE streamingState[k]
     IN /\ streamingState' = [streamingState EXCEPT ![k] = phase]
        /\ \E published \in PublishOutcomes :
             uiLog' = IF published
                        THEN [uiLog EXCEPT ![ev.gen] =
                                << UiEvent("streamUpdate", k, ev.text, phase, ev.gen, "handleStreamUpdate") >> \o @]
                        ELSE uiLog
        /\ calls' = [c \in CallIds |->
                       IF calls[c].listening /\ calls[c].msg.tabId = k
                         THEN [calls[c] EXCEPT !.heard = TRUE]
                         ELSE calls[c]]
  /\ toCoord' = Tail(toCoord)
  /\ UNCHANGED << doc, sessionStore, gens, wlog, sessionMeta, convData, conversations,
                  activeConversations, tabs, tasks, readySince, faults, env, sm, page, convStore, dropped >>

\* A variant that records the initial phase on every streamUpdate.
HandleStreamUpdateResets ==
  /\ toCoord # << >>
  /\ Head(toCoord).action = "streamUpdate"
  /\ LET ev == Head(toCoord)
         k == ev.tabId
         phase == "initial"
     IN /\ streamingState' = [streamingState EXCEPT ![k] = phase]
        /\ \E published \in PublishOutcomes :
             uiLog' = IF published
                        THEN [uiLog EXCEPT ![ev.gen] =
                                Append(@, UiEvent("streamUpdate", k, ev.text, phase, ev.gen, "handleStreamUpdate"))]
                        ELSE uiLog
        /\ calls' = [c \in CallIds |->
                       IF calls[c].listening /\ calls[c].msg.tabId = k
                         THEN [calls[c] EXCEPT !.heard = TRUE]
                         ELSE calls[c]]
  /\ toCoord' = Tail(toCoord)
  /\ UNCHANGED << doc, sessionStore, gens, wlog, sessionMeta, convData, conversations,
                  activeConversations, tabs, tasks, readySince, faults, env, sm, page, convStore, dropped >>

\* A variant that publishes every streamUpdate twice.
HandleStreamUpdateTwice ==
  /\ toCoord # << >>
  /\ Head(toCoord).action = "streamUpdate"
  /\ LET ev == Head(toCoord)
         k == ev.tabId
         phase == IF streamingState[k] = "idle" THEN "initial" ELSE streamingState[k]
     IN /\ streamingState' = [streamingState EXCEPT ![k] = phase]
        /\ \E published \in PublishOutcomes :
             uiLog' = IF published
                        THEN [uiLog EXCEPT ![ev.gen] =
                                @ \o << UiEvent("streamUpdate", k, ev.text, phase, ev.gen, "handleStreamUpdate"),
                                        UiEvent("streamUpdate", k, ev.text, phase, ev.gen, "handleStreamUpdate") >>]
                        ELSE uiLog
        /\ calls' = [c \in CallIds |->
                       IF calls[c].listening /\ calls[c].msg.tabId = k
                         THEN [calls[c] EXCEPT !.heard = TRUE]
                         ELSE calls[c]]
  /\ toCoord' = Tail(toCoord)
  /\ UNCHANGED << doc, sessionStore, gens, wlog, sessionMeta, convData, conversations,
                  activeConversations, tabs, tasks, readySince, faults, env, sm, page, convStore, dropped >>

\* handleStreamUpdate, and the streamUpdateListener of every pending
\* sendMessageToOffscreen call, on a streamUpdate from the worker.
HandleStreamUpdate ==
  /\ toCoord # << >>
  /\ Head(toCoord).action = "streamUpdate"
  /\ LET ev == Head(toCoord)
         k == ev.tabId
         phase == IF streamingState[k] = "idle" THEN "initial" ELSE streamingState[k]
     IN /\ streamingState' = [streamingState EXCEPT ![k] = phase]
        /\ \E published \in PublishOutcomes :
             uiLog' = IF published
                        THEN [uiLog EXCEPT ![ev.gen] =
                                Append(@, UiEvent("streamUpdate", k, ev.text, phase, ev.gen, "handleStreamUpdate"))]
                        ELSE uiLog
        /\ calls' = [c \in CallIds |->
                       IF calls[c].listening /\ calls[c].msg.tabId = k
                         THEN [calls[c] EXCEPT !.heard = TRUE]
                         ELSE calls[c]]
  /\ toCoord' = Tail(toCoord)
  /\ UNCHANGED << doc, sessionStore, gens, wlog, sessionMeta, convData, conversations,
                  activeConversations, tabs, tasks, readySince, faults, env, sm, page, convStore, dropped >>

\* handleStreamComplete up to its first await: the branch is chosen from the
\* phase recorded at that moment.  The fallback branch publishes at once.
HandleStreamComplete ==
  /\ toCoord # << >>
  /\ Head(toCoord).action = "streamComplete"
  /\ LET ev == Head(toCoord)
         k == ev.tabId
         phase == streamingState[k]
     IN /\ tasks' = [tasks EXCEPT ![ev.gen] =
                       [pc |-> CASE phase = "meta" -> "meta"
                                 [] phase = "initial" -> "initial"
                                 [] phase = "followup" -> "followup"
                                 [] OTHER -> "cleanup",
                        key |-> k, text |-> ev.text, seen |-> << >>]]
        /\ \E published \in PublishOutcomes :
             uiLog' = IF phase = "idle" /\ published
                        THEN [uiLog EXCEPT ![ev.gen] =
                                Append(@, UiEvent("streamComplete", k, NoText, "idle", ev.gen, "handleStreamComplete"))]
                        ELSE uiLog
  /\ toCoord' = Tail(toCoord)
  /\ UNCHANGED << doc, sessionStore, gens, wlog, calls, streamingState, sessionMeta,
                  convData, conversations, activeConversations, tabs, readySince, faults, env, sm, page, convStore, dropped >>

\* handleStreamComplete, title/actions turn: saveConversationWithTitle (first
\* time only), then streamUpdate and streamComplete to the UI.
HscMeta(g) ==
  /\ tasks[g].pc = "meta"
  /\ LET k == tasks[g].key
         cd == convData[k]
         save == cd.exists /\ ~cd.conversationId /\ Truthy(cd.firstResponse)
     IN /\ \/ /\ save
              /\ \E titleResponse \in ShapesOf(tasks[g].text) :
                   conversations' = [conversations EXCEPT ![k] =
                     [exists |-> TRUE,
                      messages |-> << Message("assistant", cd.firstResponse) >>,
                      title |-> parseTitleFromResponse(titleResponse),
                      actionButtons |-> parseActionsFromResponse(titleResponse),
                      titleResponse |-> titleResponse]]
              /\ convData' = [convData EXCEPT ![k].conversationId = TRUE]
              /\ activeConversations' = activeConversations \cup {k}
              /\ UNCHANGED faults
           \/ /\ save
              /\ MayFail("storage")
              /\ faults' = faults + 1
              /\ UNCHANGED << conversations, convData, activeConversations >>
           \/ /\ ~save
              /\ UNCHANGED << conversations, convData, activeConversations, faults >>
        /\ \E published \in PublishOutcomes :
             uiLog' = IF published
                        THEN [uiLog EXCEPT ![g] =
                                @ \o << UiEvent("streamUpdate", k, tasks[g].text, "meta", g, "handleStreamComplete"),
                                        UiEvent("streamComplete", k, NoText, "followup", g, "handleStreamComplete") >>]
                        ELSE uiLog
  /\ tasks' = [tasks EXCEPT ![g].pc = "cleanup"]
  /\ UNCHANGED << doc, workerVars, calls, streamingState, sessionMeta, tabs, readySince, env, sm, page, convStore, dropped >>

\* A variant that takes the initial branch for a model answer only: an
\* error text goes to the fallback.
HscInitialAnswersOnly(g) ==
  /\ tasks[g].pc = "initial"
  /\ LET k == tasks[g].key IN
       IF k \in tabs /\ tasks[g].text.ok
         THEN \E published \in PublishOutcomes :
                /\ convData' = IF convData[k].exists
                                 THEN [convData EXCEPT ![k].firstResponse = tasks[g].text]
                                 ELSE convData
                /\ uiLog' = IF published
                              THEN [uiLog EXCEPT ![g] =
                                      Append(@, UiEvent("streamComplete", k, NoText, "initial", g, "handleStreamComplete"))]
                              ELSE uiLog
                /\ tasks' = [tasks EXCEPT ![g].pc = IF published THEN "initDelete" ELSE "fallback"]
         ELSE /\ UNCHANGED << convData, uiLog >>
              /\ tasks' = [tasks EXCEPT ![g].pc = "fallback"]
  /\ UNCHANGED << doc, workerVars, calls, streamingState, sessionMeta, conversations,
                  activeConversations, tabs, readySince, faults, env, sm, page, convStore, dropped >>

\* handleStreamComplete, initial answer: chrome.tabs.get, storeAnalysisResult,
\* firstResponse into the conversation data, streamComplete to the UI.  If
\* the tab is gone or the publish throws, the catch block logs and the
\* handler falls through to the fallback at its end.
HscInitial(g) ==
  /\ tasks[g].pc = "initial"
  /\ LET k == tasks[g].key IN
       IF k \in tabs
         THEN \E published \in PublishOutcomes :
                /\ convData' = IF convData[k].exists
                                 THEN [convData EXCEPT ![k].firstResponse = tasks[g].text]
                                 ELSE convData
                /\ uiLog' = IF published
                              THEN [uiLog EXCEPT ![g] =
                                      Append(@, UiEvent("streamComplete", k, NoText, "initial", g, "handleStreamComplete"))]
                              ELSE uiLog
                /\ tasks' = [tasks EXCEPT ![g].pc = IF published THEN "initDelete" ELSE "fallback"]
         ELSE /\ UNCHANGED << convData, uiLog >>
              /\ tasks' = [tasks EXCEPT ![g].pc = "fallback"]
  /\ UNCHANGED << doc, workerVars, calls, streamingState, sessionMeta, conversations,
                  activeConversations, tabs, readySince, faults, env, sm, page, convStore, dropped >>

\* handleStreamComplete, the fallback at its end: streamComplete to the UI
\* (errors logged), then streamingState.delete(tabId).
HscFallback(g) ==
  /\ tasks[g].pc = "fallback"
  /\ \E published \in PublishOutcomes :
       uiLog' = IF published
                  THEN [uiLog EXCEPT ![g] =
                          Append(@, UiEvent("streamComplete", tasks[g].key, NoText, "idle", g, "handleStreamComplete"))]
                  ELSE uiLog
  /\ tasks' = [tasks EXCEPT ![g].pc = "cleanup"]
  /\ UNCHANGED << doc, workerVars, calls, streamingState, sessionMeta, convData, conversations,
                  activeConversations, tabs, readySince, faults, env, sm, page, convStore, dropped >>

\* ... streamingState.delete(tabId), then generateActionButtons begins.
HscInitDelete(g) ==
  /\ tasks[g].pc = "initDelete"
  /\ streamingState' = [streamingState EXCEPT ![tasks[g].key] = "idle"]
  /\ tasks' = [tasks EXCEPT ![g].pc = "generateActionButtons"]
  /\ UNCHANGED << doc, workerVars, calls, sessionMeta, convData, conversations,
                  activeConversations, tabs, uiLog, readySince, faults, env, sm, page, convStore, dropped >>

\* generateActionButtons after its await: record the title/actions phase and
\* call sendMessageToOffscreen(sendPrompt) without awaiting it.
generateActionButtons(g) ==
  /\ tasks[g].pc = "generateActionButtons"
  /\ CanCall
  /\ streamingState' = [streamingState EXCEPT ![tasks[g].key] = "meta"]
  /\ SetCall(NextCall, EnsureEnter([FreeCall EXCEPT !.caller = "meta",
                                                    !.msg = PromptMsg(tasks[g].key, TRUE),
                                                    !.phase0 = "idle"], readySince))
  /\ tasks' = [tasks EXCEPT ![g] = NoTask]
  /\ UNCHANGED << doc, workerVars, sessionMeta, convData, conversations,
                  activeConversations, tabs, uiLog, readySince, faults, env, sm, page, convStore, dropped >>

\* handleStreamComplete, follow-up answer: getConversationData and
\* getConversation read the messages of the key's durable record (none if
\* the key has no saved conversation).
HscFollowup(g) ==
  /\ tasks[g].pc = "followup"
  /\ LET k == tasks[g].key
         has == convData[k].exists /\ convData[k].conversationId /\ conversations[k].exists
     IN tasks' = [tasks EXCEPT ![g].pc = "followupSave",
                               ![g].seen = IF has THEN conversations[k].messages ELSE << >>]
  /\ UNCHANGED << doc, workerVars, calls, streamingState, sessionMeta, convData, conversations,
                  activeConversations, tabs, uiLog, readySince, faults, env, sm, page, convStore, dropped >>

\* ... updateConversation writes the messages read with the answer appended
\* (errors logged), then streamComplete to the UI.
HscFollowupSave(g) ==
  /\ tasks[g].pc = "followupSave"
  /\ LET k == tasks[g].key
         has == tasks[g].seen # << >>
     IN /\ \/ /\ conversations' = IF has
                                    THEN [conversations EXCEPT ![k].messages =
                                            Append(tasks[g].seen, Message("assistant", tasks[g].text))]
                                    ELSE conversations
              /\ UNCHANGED faults
           \/ /\ has
              /\ MayFail("storage")
              /\ faults' = faults + 1
              /\ UNCHANGED conversations
        /\ \E published \in PublishOutcomes :
             uiLog' = IF published
                        THEN [uiLog EXCEPT ![g] =
                                Append(@, UiEvent("streamComplete", k, NoText, "followup", g, "handleStreamComplete"))]
                        ELSE uiLog
  /\ tasks' = [tasks EXCEPT ![g].pc = "cleanup"]
  /\ UNCHANGED << doc, workerVars, calls, streamingState, sessionMeta, convData,
                  activeConversations, tabs, readySince, env, sm, page, convStore, dropped >>

\* The end of handleStreamComplete: streamingState.delete(tabId).
HscCleanup(g) ==
  /\ tasks[g].pc = "cleanup"
  /\ streamingState' = [streamingState EXCEPT ![tasks[g].key] = "idle"]
  /\ tasks' = [tasks EXCEPT ![g] = NoTask]
  /\ UNCHANGED << doc, workerVars, calls, sessionMeta, convData, conversations,
                  activeConversations, tabs, uiLog, readySince, faults, env, sm, page, convStore, dropped >>

(***************************************************************************)
(* The system.  It starts once the install / startup handler's             *)
(* ensureOffscreenDocument has reported ready.  The tabs of RestoredTabs   *)
(* hold a saved conversation that handleRestoreConversation has restored:  *)
(* session metadata and conversation data with the conversation's id, and  *)
(* no session in the worker.  The other tabs are fresh.                    *)
(***************************************************************************)
RestoredTabs == {2}
RestoredConvData == [exists |-> TRUE, conversationId |-> TRUE, firstResponse |-> NoText]
StoredConversation ==
  [exists |-> TRUE, messages |-> << Message("assistant", Answer(1)) >>,
   title |-> Title("A Title", 7), actionButtons |-> << "Q1", "Q2" >>, titleResponse |-> "quoted"]

Init ==
  /\ doc = "live"
  /\ sessionStore = {}
  /\ gens = [g \in GenIds |-> NoGen]
  /\ toCoord = << >>
  /\ wlog = [g \in GenIds |-> << >>]
  /\ calls = [c \in CallIds |-> FreeCall]
  /\ streamingState = [k \in Keys |-> "idle"]
  /\ sessionMeta = [k \in Keys |-> k \in RestoredTabs]
  /\ convData = [k \in Keys |-> IF k \in RestoredTabs THEN RestoredConvData ELSE NoConvData]
  /\ conversations = [k \in Keys |-> IF k \in RestoredTabs THEN StoredConversation
                                                           ELSE NoConversation]
  /\ activeConversations = {}
  /\ tabs = Keys
  /\ tasks = [g \in GenIds |-> NoTask]
  /\ uiLog = [g \in GenIds |-> << >>]
  /\ readySince = TRUE
  /\ faults = 0
  /\ env = [overlap |-> 1, faults |-> {"reclaim", "hang", "model", "storage"}, budget |-> MaxFaults]
  /\ sm = NoRun
  /\ page = NoPage
  /\ convStore = NoStore
  /\ dropped = NoDropped

Next ==
  \/ HostReclaim
  \/ DocLoaded
  \/ DocHang
  \/ \E c \in CallIds : EnsureGetContexts(c)
  \/ \E c \in CallIds : EnsurePingExisting(c)
  \/ \E c \in CallIds : EnsureCloseExisting(c)
  \/ \E c \in CallIds : EnsureCreate(c)
  \/ \E c \in CallIds : EnsureProbe(c)
  \/ \E c \in CallIds : SendFirst(c)
  \/ \E c \in CallIds : AwaitFirst(c)
  \/ \E c \in CallIds : GraceEnd(c)
  \/ \E c \in CallIds : RetryClose(c)
  \/ \E c \in CallIds : SendRetry(c)
  \/ \E c \in CallIds : AwaitRetry(c)
  \/ \E g \in GenIds : GenStart(g)
  \/ \E g \in GenIds : GenChunk(g)
  \/ \E g \in GenIds : GenStreamError(g)
  \/ \E g \in GenIds : GenFinish(g)
  \/ \E g \in GenIds : GenFallback(g)
  \/ \E k \in Keys, type \in {"screenshot", "image"} : AnalyzePage(k, type)
  \/ \E c \in CallIds : AnalyzeSend(c)
  \/ \E k \in Keys : FollowupQuestion(k)
  \/ \E c \in CallIds : FollowupSend(c)
  \/ HandleStreamUpdate
  \/ HandleStreamComplete
  \/ \E g \in GenIds : HscMeta(g)
  \/ \E g \in GenIds : HscInitial(g)
  \/ \E g \in GenIds : HscFallback(g)
  \/ \E g \in GenIds : HscInitDelete(g)
  \/ \E g \in GenIds : generateActionButtons(g)
  \/ \E g \in GenIds : HscFollowup(g)
  \/ \E g \in GenIds : HscFollowupSave(g)
  \/ \E g \in GenIds : HscCleanup(g)

Spec == Init /\ [][Next]_vars

(***************************************************************************)
(* The whole system when, besides, a response of the worker may miss the   *)
(* deadline of the delivery layer although the worker is alive and has     *)
(* handled the message.                                                    *)
(***************************************************************************)
LateInit ==
  /\ doc = "live"
  /\ sessionStore = {}
  /\ gens = [g \in GenIds |-> NoGen]
  /\ toCoord = << >>
  /\ wlog = [g \in GenIds |-> << >>]
  /\ calls = [c \in CallIds |-> FreeCall]
  /\ streamingState = [k \in Keys |-> "idle"]
  /\ sessionMeta = [k \in Keys |-> k \in RestoredTabs]
  /\ convData = [k \in Keys |-> IF k \in RestoredTabs THEN RestoredConvData ELSE NoConvData]
  /\ conversations = [k \in Keys |-> IF k \in RestoredTabs THEN StoredConversation
                                                           ELSE NoConversation]
  /\ activeConversations = {}
  /\ tabs = Keys
  /\ tasks = [g \in GenIds |-> NoTask]
  /\ uiLog = [g \in GenIds |-> << >>]
  /\ readySince = TRUE
  /\ faults = 0
  /\ env = [overlap |-> 1, faults |-> {"late"}, budget |-> MaxFaults]
  /\ sm = NoRun
  /\ page = NoPage
  /\ convStore = NoStore
  /\ dropped = NoDropped

\* Pages are analysed; the host does not interfere and the model does not
\* fail.
LateNext ==
  \/ DocLoaded
  \/ \E c \in CallIds : EnsureGetContexts(c)
  \/ \E c \in CallIds : EnsurePingExisting(c)
  \/ \E c \in CallIds : EnsureCloseExisting(c)
  \/ \E c \in CallIds : EnsureCreate(c)
  \/ \E c \in CallIds : EnsureProbe(c)
  \/ \E c \in CallIds : SendFirst(c)
  \/ \E c \in CallIds : AwaitFirst(c)
  \/ \E c \in CallIds : GraceEnd(c)
  \/ \E c \in CallIds : RetryClose(c)
  \/ \E c \in CallIds : SendRetry(c)
  \/ \E c \in CallIds : AwaitRetry(c)
  \/ \E g \in GenIds : GenStart(g)
  \/ \E g \in GenIds : GenChunk(g)
  \/ \E g \in GenIds : GenFinish(g)
  \/ \E k \in Keys : AnalyzePage(k, "screenshot")
  \/ \E c \in CallIds : AnalyzeSend(c)
  \/ HandleStreamUpdate
  \/ HandleStreamComplete
  \/ \E g \in GenIds : HscInitial(g)
  \/ \E g \in GenIds : HscFallback(g)
  \/ \E g \in GenIds : HscInitDelete(g)
  \/ \E g \in GenIds : HscCleanup(g)

LateSpec == LateInit /\ [][LateNext]_vars

(***************************************************************************)
(* The whole system on one tab when the document may stop answering more   *)
(* than once: the recreated document may hang as the first one did.  The   *)
(* timers and promises of an invocation always fire in the end.            *)
(***************************************************************************)
MaxHangs == 2

DeadlineInit ==
  /\ doc = "none"
  /\ sessionStore = {}
  /\ gens = [g \in GenIds |-> NoGen]
  /\ toCoord = << >>
  /\ wlog = [g \in GenIds |-> << >>]
  /\ calls = [c \in CallIds |-> FreeCall]
  /\ streamingState = [k \in Keys |-> "idle"]
  /\ sessionMeta = [k \in Keys |-> FALSE]
  /\ convData = [k \in Keys |-> NoConvData]
  /\ conversations = [k \in Keys |-> NoConversation]
  /\ activeConversations = {}
  /\ tabs = {1}
  /\ tasks = [g \in GenIds |-> NoTask]
  /\ uiLog = [g \in GenIds |-> << >>]
  /\ readySince = FALSE
  /\ faults = 0
  /\ env = [overlap |-> 1, faults |-> {"hang"}, budget |-> MaxHangs]
  /\ sm = NoRun
  /\ page = NoPage
  /\ convStore = NoStore
  /\ dropped = NoDropped

\* The steps of sendMessageToOffscreen and of the ensureOffscreenDocument it
\* awaits: each is a timer or a promise of the host that settles.
CallStep(c) ==
  \/ AnalyzeSend(c)
  \/ EnsureGetContexts(c)
  \/ EnsurePingExisting(c)
  \/ EnsureCloseExisting(c)
  \/ EnsureCreate(c)
  \/ EnsureProbe(c)
  \/ SendFirst(c)
  \/ AwaitFirst(c)
  \/ GraceEnd(c)
  \/ RetryClose(c)
  \/ SendRetry(c)
  \/ AwaitRetry(c)

DeadlineNext ==
  \/ DocLoaded
  \/ DocHang
  \/ \E c \in CallIds : CallStep(c)
  \/ \E g \in GenIds : GenStart(g)
  \/ \E g \in GenIds : GenChunk(g)
  \/ \E g \in GenIds : GenFinish(g)
  \/ \E k \in Keys : AnalyzePage(k, "screenshot")
  \/ HandleStreamUpdate
  \/ HandleStreamComplete
  \/ \E g \in GenIds : HscInitial(g)
  \/ \E g \in GenIds : HscFallback(g)
  \/ \E g \in GenIds : HscInitDelete(g)
  \/ \E g \in GenIds : HscCleanup(g)

DeadlineSpec ==
  DeadlineInit /\ [][DeadlineNext]_vars /\ WF_vars(\E c \in CallIds : CallStep(c))

(***************************************************************************)
(* The delivery layer and the lifecycle manager alone, under invocations   *)
(* that overlap: the requests are sent, the worker acknowledges them, and  *)
(* no generation is run.                                                   *)
(***************************************************************************)
DeliveryInit ==
  /\ doc = "none"
  /\ sessionStore = {}
  /\ gens = [g \in GenIds |-> NoGen]
  /\ toCoord = << >>
  /\ wlog = [g \in GenIds |-> << >>]
  /\ calls = [c \in CallIds |-> FreeCall]
  /\ streamingState = [k \in Keys |-> "idle"]
  /\ sessionMeta = [k \in Keys |-> FALSE]
  /\ convData = [k \in Keys |-> NoConvData]
  /\ conversations = [k \in Keys |-> NoConversation]
  /\ activeConversations = {}
  /\ tabs = {1}
  /\ tasks = [g \in GenIds |-> NoTask]
  /\ uiLog = [g \in GenIds |-> << >>]
  /\ readySince = FALSE
  /\ faults = 0
  /\ env = [overlap |-> 2, faults |-> {"reclaim", "hang", "late"}, budget |-> MaxFaults]
  /\ sm = NoRun
  /\ page = NoPage
  /\ convStore = NoStore
  /\ dropped = NoDropped

DeliveryNext ==
  \/ HostReclaim
  \/ DocLoaded
  \/ DocHang
  \/ \E c \in CallIds : EnsureGetContexts(c)
  \/ \E c \in CallIds : EnsurePingExisting(c)
  \/ \E c \in CallIds : EnsureCloseExisting(c)
  \/ \E c \in CallIds : EnsureCreate(c)
  \/ \E c \in CallIds : EnsureProbe(c)
  \/ \E c \in CallIds : SendFirst(c)
  \/ \E c \in CallIds : AwaitFirst(c)
  \/ \E c \in CallIds : GraceEnd(c)
  \/ \E c \in CallIds : RetryClose(c)
  \/ \E c \in CallIds : SendRetry(c)
  \/ \E c \in CallIds : AwaitRetry(c)
  \/ \E k \in Keys : AnalyzePage(k, "screenshot")
  \/ \E c \in CallIds : AnalyzeSend(c)
  \/ \E k \in Keys : TabRemoved(k)
  \/ Startup

DeliverySpec == DeliveryInit /\ [][DeliveryNext]_vars

(***************************************************************************)
(* The session manager alone (ai/sessionManager.js): one createSession     *)
(* call and one sendPromptStreaming call consume the same stream of chunks *)
(* under the same quota, and the worker's listener sends what it sends for *)
(* the result.  Texts are sequences of characters.  The model session      *)
(* exists (createLanguageModel succeeded, the key has a session for        *)
(* sendPromptStreaming) and the image converts.                            *)
(***************************************************************************)
MaxChunkLen == 2               \* characters in a chunk of an enumerated stream
MaxStreamLen == 3              \* chunks in an enumerated stream
LongLen == 21                  \* chunks in a long stream

Chars == {"a", "b"}
SeqsUpTo(S, n) == UNION {[1..k -> S] : k \in 0..n}
Chunks == SeqsUpTo(Chars, MaxChunkLen)

Hello == << "H", "e", "l", "l", "o" >>
World == << " ", "w", "o", "r", "l", "d" >>
Bang == << "!" >>
\* The streams of the specification's scenarios: cumulative, incremental, mixed.
ExampleStreams ==
  { << Hello, Hello \o World >>,
    << Hello, World >>,
    << Hello, Hello \o World, Bang >> }
\* Long streams: incremental, and cumulative.
LongStreams ==
  { [i \in 1..LongLen |-> << "a" >>],
    [i \in 1..LongLen |-> [j \in 1..i |-> "a"]] }
StreamInputs == SeqsUpTo(Chunks, MaxStreamLen) \cup ExampleStreams \cup LongStreams

\* The quota is found exceeded from the check number quotaFrom on (check 0
\* is the one before the stream; "never" is a number no run reaches).
QuotaFroms == 0..(LongLen \div QuotaCheckEvery + 1)

\* What session.prompt() answers in the fallback of sendPromptStreaming.
FallbackResponses == { << >>, << "a" >> }

\* String.prototype.startsWith
StartsWith(chunk, prefix) ==
  /\ Len(prefix) <= Len(chunk)
  /\ SubSeq(chunk, 1, Len(prefix)) = prefix

\* One call.  checks, callbacks, streamingCalls and sent are history: the
\* chunk counts at which checkQuota was called (0: before the stream), the
\* texts passed to the stream callback, the calls of session.promptStreaming,
\* what the worker's listener puts on the bus for the result.
NewRun(input) == [IdleRun EXCEPT !.pc = "start", !.rest = input]

\* The call returns `result` to the listener of the worker (offscreen.js).
Return(r, result) ==
  [r EXCEPT !.pc = "done", !.result = result,
            !.sent = ResultEvents(1, result, << 1, 1 >>)]

\* checkQuota(session): usage >= quota at this check?
checkQuota(r) == Len(r.checks) >= sm.quotaFrom

\* A variant that always appends (C12 tells it apart).
createSessionMergeAppendOnly(fullText, chunk) == fullText \o chunk

\* createSession, the merge of a chunk into the buffer.
createSessionMerge(fullText, chunk) ==
  IF fullText # << >> /\ StartsWith(chunk, fullText) THEN chunk ELSE fullText \o chunk

\* A variant that takes every chunk for the whole text.
sendPromptMergeReplace(fullText, chunk) == chunk

\* sendPromptStreaming, the merge of a chunk into the buffer.
sendPromptMerge(fullText, chunk) ==
  IF fullText # << >> /\ StartsWith(chunk, fullText) THEN chunk ELSE fullText \o chunk

\* A variant that starts the stream whatever the check says (C17 tells it
\* apart).
RunStartUnchecked(r) ==
  [r EXCEPT !.checks = Append(@, 0), !.pc = "stream", !.streamingCalls = @ + 1]

\* The quota check before processing, then session.promptStreaming(prompt).
RunStart(r) ==
  LET c == [r EXCEPT !.checks = Append(@, 0)] IN
  IF checkQuota(r)
    THEN Return(c, Failure("error_quota_exceeded", "Quota exceeded", None))
    ELSE [c EXCEPT !.pc = "stream", !.streamingCalls = @ + 1]

\* One turn of `for await (const chunk of stream)` in createSession.
CreateSessionTurn(r) ==
  LET chunk == Head(r.rest)
      chunkCount == r.chunkCount + 1
      check == chunkCount % QuotaCheckEvery = 0
      c == [r EXCEPT !.rest = Tail(@), !.chunkCount = chunkCount,
                     !.checks = IF check THEN Append(@, chunkCount) ELSE @]
      fullText == createSessionMerge(r.fullText, chunk)
  IN IF check /\ checkQuota(r)
       THEN Return(c, Failure("error_quota_exceeded",
                              "Quota exceeded during streaming", r.fullText))
       ELSE [c EXCEPT !.fullText = fullText, !.callbacks = Append(@, fullText)]

\* One turn of `for await (const chunk of stream)` in sendPromptStreaming.
SendPromptTurn(r) ==
  LET chunk == Head(r.rest)
      chunkCount == r.chunkCount + 1
      check == chunkCount % QuotaCheckEvery = 0
      c == [r EXCEPT !.rest = Tail(@), !.chunkCount = chunkCount,
                     !.checks = IF check THEN Append(@, chunkCount) ELSE @]
      fullText == sendPromptMerge(r.fullText, chunk)
  IN IF check /\ checkQuota(r)
       THEN Return(c, Failure("error_quota_exceeded",
                              "Quota exceeded during streaming", r.fullText))
       ELSE [c EXCEPT !.fullText = fullText, !.callbacks = Append(@, fullText)]

CsStart ==
  /\ sm.cs.pc = "start"
  /\ sm' = [sm EXCEPT !.cs = RunStart(sm.cs)]
  /\ UNCHANGED << sysVars, page, convStore, dropped >>

CsChunk ==
  /\ sm.cs.pc = "stream"
  /\ sm.cs.rest # << >>
  /\ sm' = [sm EXCEPT !.cs = CreateSessionTurn(sm.cs)]
  /\ UNCHANGED << sysVars, page, convStore, dropped >>

\* The stream throws: the catch block of the loop.
CsThrow ==
  /\ sm.cs.pc = "stream"
  /\ \E e \in StreamErrors :
       sm' = [sm EXCEPT !.cs =
                Return(@, Failure(getErrorMessage(e), "Streaming failed", sm.cs.fullText))]
  /\ UNCHANGED << sysVars, page, convStore, dropped >>

\* The stream ends: sessionStore.set(tabId, ...), return the text.
CsEnd ==
  /\ sm.cs.pc = "stream"
  /\ sm.cs.rest = << >>
  /\ sm' = [sm EXCEPT !.cs = Return([@ EXCEPT !.stored = TRUE], Success(sm.cs.fullText))]
  /\ UNCHANGED << sysVars, page, convStore, dropped >>

SpStart ==
  /\ sm.sp.pc = "start"
  /\ sm' = [sm EXCEPT !.sp = RunStart(sm.sp)]
  /\ UNCHANGED << sysVars, page, convStore, dropped >>

SpChunk ==
  /\ sm.sp.pc = "stream"
  /\ sm.sp.rest # << >>
  /\ sm' = [sm EXCEPT !.sp = SendPromptTurn(sm.sp)]
  /\ UNCHANGED << sysVars, page, convStore, dropped >>

SpThrow ==
  /\ sm.sp.pc = "stream"
  /\ \E e \in StreamErrors :
       sm' = [sm EXCEPT !.sp =
                Return(@, Failure(getErrorMessage(e), "Streaming failed", sm.sp.fullText))]
  /\ UNCHANGED << sysVars, page, convStore, dropped >>

\* The stream ends: with no chunk at all, fall back to session.prompt().
SpEnd ==
  /\ sm.sp.pc = "stream"
  /\ sm.sp.rest = << >>
  /\ sm' = [sm EXCEPT !.sp = IF sm.sp.chunkCount = 0
                               THEN [@ EXCEPT !.pc = "fallback"]
                               ELSE Return(@, Success(sm.sp.fullText))]
  /\ UNCHANGED << sysVars, page, convStore, dropped >>

\* session.prompt() answers (the callback gets a non-empty answer) or throws.
SpFallback ==
  /\ sm.sp.pc = "fallback"
  /\ \/ \E response \in FallbackResponses :
          sm' = [sm EXCEPT !.sp =
                   Return([@ EXCEPT !.callbacks = IF response # << >> THEN Append(@, response) ELSE @],
                          Success(response))]
     \/ \E e \in StreamErrors :
          sm' = [sm EXCEPT !.sp =
                   Return(@, Failure(getErrorMessage(e), "Prompt failed", None))]
  /\ UNCHANGED << sysVars, page, convStore, dropped >>

\* Nothing of the extension runs.
SysQuiet ==
  /\ doc = "none"
  /\ sessionStore = {}
  /\ gens = [g \in GenIds |-> NoGen]
  /\ toCoord = << >>
  /\ wlog = [g \in GenIds |-> << >>]
  /\ calls = [c \in CallIds |-> FreeCall]
  /\ streamingState = [k \in Keys |-> "idle"]
  /\ sessionMeta = [k \in Keys |-> FALSE]
  /\ convData = [k \in Keys |-> NoConvData]
  /\ conversations = [k \in Keys |-> NoConversation]
  /\ activeConversations = {}
  /\ tabs = Keys
  /\ tasks = [g \in GenIds |-> NoTask]
  /\ uiLog = [g \in GenIds |-> << >>]
  /\ readySince = FALSE
  /\ faults = 0
  /\ env = [overlap |-> 0, faults |-> {}, budget |-> 0]

SessionInit ==
  /\ SysQuiet
  /\ sm \in {[input |-> i, quotaFrom |-> q, cs |-> NewRun(i), sp |-> NewRun(i)] :
               i \in StreamInputs, q \in QuotaFroms}
  /\ page = NoPage
  /\ convStore = NoStore
  /\ dropped = NoDropped

SessionNext ==
  \/ CsStart
  \/ CsChunk
  \/ CsThrow
  \/ CsEnd
  \/ SpStart
  \/ SpChunk
  \/ SpThrow
  \/ SpEnd
  \/ SpFallback

SessionSpec == SessionInit /\ [][SessionNext]_vars

(***************************************************************************)
(* The context chunker alone (ai/contextChunker.js).  A text is a sequence *)
(* of runs [c, n]: n copies of a character of class c, where "x" is an     *)
(* ASCII letter, "s" a space and "e" a letter of two UTF-8 bytes; each is  *)
(* one UTF-16 unit.  The context being built is a sequence of sections,    *)
(* each with the byte size of its serialisation.                           *)
(***************************************************************************)
MAX_CONTEXT_SIZE == 10 * 1024
\* getTextSizeInBytes(FOOTER_MESSAGE): 66 characters, one of them of 3 bytes.
FooterSize == 65 + 3

Run(c, n) == [c |-> c, n |-> n]
X(n) == IF n = 0 THEN << >> ELSE << Run("x", n) >>
BytesOf(c) == IF c = "e" THEN 2 ELSE 1

\* text.length
RECURSIVE Units(_)
Units(t) == IF t = << >> THEN 0 ELSE Head(t).n + Units(Tail(t))

\* getTextSizeInBytes(text)
RECURSIVE getTextSizeInBytes(_)
getTextSizeInBytes(t) ==
  IF t = << >> THEN 0 ELSE Head(t).n * BytesOf(Head(t).c) + getTextSizeInBytes(Tail(t))

\* text.substring(0, k)
RECURSIVE Substring(_, _)
Substring(t, k) ==
  IF t = << >> \/ k <= 0 THEN << >>
  ELSE IF Head(t).n <= k THEN << Head(t) >> \o Substring(Tail(t), k - Head(t).n)
  ELSE << Run(Head(t).c, k) >>

\* text.lastIndexOf(" "), for the text that follows `offset` units
RECURSIVE LastIndexOfSpace(_, _)
LastIndexOfSpace(t, offset) ==
  IF t = << >> THEN 0 - 1
  ELSE LET later == LastIndexOfSpace(Tail(t), offset + Head(t).n) IN
       IF later >= 0 THEN later
       ELSE IF Head(t).c = "s" THEN offset + Head(t).n - 1
       ELSE 0 - 1

\* text.trim()
RECURSIVE TrimStart(_)
TrimStart(t) == IF t # << >> /\ Head(t).c = "s" THEN TrimStart(Tail(t)) ELSE t
RECURSIVE TrimEnd(_)
TrimEnd(t) ==
  IF t # << >> /\ t[Len(t)].c = "s" THEN TrimEnd(SubSeq(t, 1, Len(t) - 1)) ELSE t
Trim(t) == TrimEnd(TrimStart(t))

\* truncateText, the binary search for the longest prefix within maxBytes.
RECURSIVE BinarySearch(_, _, _, _, _)
BinarySearch(text, maxBytes, low, high, result) ==
  IF low > high THEN result
  ELSE LET mid == (low + high) \div 2
           substring == Substring(text, mid)
       IN IF getTextSizeInBytes(substring) <= maxBytes
            THEN BinarySearch(text, maxBytes, mid + 1, high, substring)
            ELSE BinarySearch(text, maxBytes, low, mid - 1, result)

\* truncateText(text, maxBytes)
truncateText(text, maxBytes) ==
  IF text = << >> THEN << >>
  ELSE IF getTextSizeInBytes(text) <= maxBytes THEN text
  ELSE LET found == BinarySearch(text, maxBytes, 0, Units(text), << >>)
           lastSpace == LastIndexOfSpace(found, 0)
           result == IF 10 * lastSpace > 8 * Units(found)
                       THEN Substring(found, lastSpace)
                       ELSE found
       IN Trim(result)

\* truncateArray(items, maxBytes): the items kept (a prefix of the list).
RECURSIVE truncateArray(_, _)
truncateArray(items, maxBytes) ==
  IF items = << >> THEN << >>
  ELSE LET itemSize == getTextSizeInBytes(Head(items)) + 1 IN
       IF itemSize > maxBytes THEN << >>
       ELSE << Head(items) >> \o truncateArray(Tail(items), maxBytes - itemSize)

\* items.join("\n"), in bytes
RECURSIVE JoinSize(_)
JoinSize(items) ==
  IF items = << >> THEN 0
  ELSE getTextSizeInBytes(Head(items)) + (IF Len(items) > 1 THEN 1 ELSE 0) + JoinSize(Tail(items))

\* headings.map((h) => `- ${h}`)
Dashed(items) == [i \in 1..Len(items) |-> << Run("x", 1), Run("s", 1) >> \o items[i]]

\* A section of the context: what it is, its content, and the bytes of its
\* serialisation (header and separators included).
Section(label, content, bytes) == [label |-> label, content |-> content, bytes |-> bytes]

RECURSIVE ContextBytes(_)
ContextBytes(context) ==
  IF context = << >> THEN 0 ELSE Head(context).bytes + ContextBytes(Tail(context))

Footer == Section("footer", << >>, FooterSize)

\* A list section (META TAGS / HEADINGS / LINKS): whole if it fits, else
\* the items truncateArray keeps within remainingBytes - 50, if any.
ListSection(label, headerBytes, items, remainingBytes) ==
  IF Len(items) > 0 /\ remainingBytes > 0
    THEN LET size == headerBytes + JoinSize(items) + 2 IN
         IF size <= remainingBytes
           THEN << Section(label, items, size) >>
           ELSE LET truncated == truncateArray(items, remainingBytes - 50) IN
                IF Len(truncated) > 0
                  THEN << Section(label, truncated, headerBytes + JoinSize(truncated) + 2) >>
                  ELSE << >>
    ELSE << >>

\* The PAGE TEXT (SNAPSHOT) section.
SnippetSection(snippet, remainingBytes) ==
  IF snippet # << >> /\ remainingBytes > 0
    THEN LET size == 22 + getTextSizeInBytes(snippet) + 2 IN
         IF size <= remainingBytes
           THEN << Section("snippet", snippet, size) >>
           ELSE LET truncated == truncateText(snippet, remainingBytes - 100) IN
                IF truncated # << >>
                  THEN << Section("snippet", truncated, 22 + getTextSizeInBytes(truncated) + 5) >>
                  ELSE << >>
    ELSE << >>

\* The article: whole if it fits, else truncated to remainingBytes - 100.
ArticleSection(articleContent, remainingBytes) ==
  LET articleSize == getTextSizeInBytes(articleContent) IN
  IF articleSize <= remainingBytes
    THEN << Section("article", articleContent, articleSize + 2) >>
    ELSE LET truncated == truncateText(articleContent, remainingBytes - 100) IN
         IF truncated # << >>
           THEN << Section("article", truncated, getTextSizeInBytes(truncated) + 5) >>
           ELSE << >>

Remaining(context) == MAX_CONTEXT_SIZE - ContextBytes(context) - FooterSize

\* The URL line and, when there is a title, the TITLE line.
Preamble(d) ==
  << Section("url", d.url, 7 + getTextSizeInBytes(d.url)) >>
    \o (IF d.title # << >>
          THEN << Section("title", d.title, 9 + getTextSizeInBytes(d.title)) >>
          ELSE << >>)

\* chunkContext(contextData)
chunkContext(d) ==
  LET head == Preamble(d)
  IN IF d.isArticle /\ d.articleContent # << >> /\ Remaining(head) > 0
       THEN head \o ArticleSection(d.articleContent, Remaining(head)) \o << Footer >>
       ELSE LET c1 == head \o ListSection("meta", 11, d.meta, Remaining(head))
                c2 == c1 \o ListSection("headings", 10, Dashed(d.headings), Remaining(c1))
                c3 == c2 \o ListSection("links", 7, d.links, Remaining(c2))
                c4 == c3 \o SnippetSection(d.snippet, Remaining(c3))
            IN c4 \o << Footer >>

\* The pages offered to the chunker.  What the page script returns
\* (background/screenshot.js): the article text is trimmed and present only
\* on an article page, the snippet is at most 4000 characters and empty on
\* an article page, the URL and the title are whatever the page has.
ShortLen == 20
WordLen == 100
ItemLen == 40
BigItemLen == 4000
SnippetMax == 4000
\* Bytes left for the URL's own text when nothing else but the footer is there.
UrlRoom == MAX_CONTEXT_SIZE - FooterSize - 7
\* Bytes left for the article after a short URL and no title.
ArticleRoom == UrlRoom - ShortLen

Urls == { X(ShortLen), X(UrlRoom - WordLen \div 2), X(UrlRoom + 1) }
Titles == { << >>, X(ShortLen), << Run("x", ShortLen), Run("s", 1), Run("e", ShortLen) >> }
Articles ==
  { << >>,
    X(WordLen),
    X(ArticleRoom),
    X(ArticleRoom + 1),
    << Run("x", ArticleRoom - WordLen), Run("s", 1), Run("x", WordLen) >>,
    << Run("e", 1), Run("s", 1), Run("x", ArticleRoom) >>,
    << Run("e", ArticleRoom) >> }
Lists ==
  { << >>,
    << X(ItemLen), << Run("x", ItemLen), Run("s", 1), Run("e", ItemLen) >> >>,
    << X(BigItemLen), X(BigItemLen), X(BigItemLen) >> }
Snippets ==
  { << >>,
    << Run("x", WordLen), Run("s", 1), Run("x", WordLen) >>,
    << Run("e", SnippetMax - WordLen), Run("s", 1), Run("x", WordLen - 1) >> }

ArticlePages ==
  [url : Urls, title : Titles, meta : Lists, headings : Lists, links : Lists,
   snippet : {<< >>}, articleContent : Articles, isArticle : {TRUE}]
OtherPages ==
  [url : Urls, title : Titles, meta : Lists, headings : Lists, links : Lists,
   snippet : Snippets, articleContent : {<< >>}, isArticle : {FALSE}]
Pages == ArticlePages \cup OtherPages

\* screenshot.js: const pageContext = chunkContext(contextData)
ChunkContext ==
  /\ page.out = << >>
  /\ page' = [page EXCEPT !.out = chunkContext(page.in)]
  /\ UNCHANGED << sysVars, sm, convStore, dropped >>

ContextInit ==
  /\ SysQuiet
  /\ sm = NoRun
  /\ page \in [in : Pages, out : {<< >>}]
  /\ convStore = NoStore
  /\ dropped = NoDropped

ContextNext == ChunkContext

ContextSpec == ContextInit /\ [][ContextNext]_vars

(***************************************************************************)
(* Properties of the streaming state machine (specification Spec).         *)
(***************************************************************************)
\* The callers that start a generation at the user's request.
UserCallers == {"followup", "screenshot", "image"}

\* C1: a request to start a generation for a key whose recorded phase is not
\* idle (a follow-up question, a page analysis, an image analysis) is
\* rejected: no createSession / sendPrompt message is sent for it.
C1_BusyRequestSendsNothing ==
  \A c \in CallIds :
    (calls[c].caller \in UserCallers /\ calls[c].phase0 \in {"initial", "followup", "meta"})
      => calls[c].sends = 0

(***************************************************************************)
(* Properties of the delivery layer and of the lifecycle manager           *)
(* (specification DeliverySpec).                                           *)
(***************************************************************************)
\* C2: one call of sendMessageToOffscreen sends the request at most twice;
\* when the second send fails too, the call rejects with "Failed after
\* retry: <message of the second failure>", and nothing is sent again.
C2_AtMostTwoSends ==
  \A c \in CallIds :
    /\ calls[c].sends <= 2
    /\ (calls[c].pc = "done" /\ calls[c].sends = 2 /\ calls[c].resp # "ack")
         => /\ calls[c].result = "failedAfterRetry"
            /\ calls[c].cause = ErrorMessage(calls[c].resp, TRUE, isStreamingAction(calls[c].msg))
    /\ calls[c].result = "failedAfterRetry"
         => /\ calls[c].pc = "done"
            /\ calls[c].sends = 2
            /\ IsTransportError(calls[c].firstErr)

\* Both attempts of a call failed with a transport-class error.
C2_BothAttemptsFailed ==
  \E c \in CallIds :
    /\ calls[c].pc = "done"
    /\ calls[c].result = "failedAfterRetry"
    /\ IsTransportError(calls[c].firstErr)
    /\ IsTransportError(calls[c].resp)

\* The call has reached its second attempt.
Retrying(c) ==
  \/ calls[c].pc \in {"send2", "resp2"}
  \/ calls[c].pc = "done" /\ calls[c].sends = 2

\* C3 (as stated): when the first send fails with a transport-class error and
\* the retry is answered, the call resolves with the answer and exactly one
\* recreation cycle took place between the attempts: one closeDocument, one
\* ensureOffscreenDocument, exactly one createDocument.
C3_ExactlyOneCreate ==
  \A c \in CallIds :
    (calls[c].pc = "done" /\ calls[c].sends = 2 /\ calls[c].resp = "ack")
      => /\ calls[c].result = "ok"
         /\ calls[c].retryCloses = 1
         /\ calls[c].retryEnsures = 1
         /\ calls[c].retryCreates = 1

\* C3 (amended): the cycle is one closeDocument and one
\* ensureOffscreenDocument, which issues at most one createDocument, and none
\* only when it found a worker already there that answered its probe
\* (another invocation recreated it in the meantime).
C3_OneRecreationCycle ==
  \A c \in CallIds :
    /\ Retrying(c)
         => /\ IsTransportError(calls[c].firstErr)
            /\ calls[c].retryCloses = 1
            /\ calls[c].retryEnsures = 1
            /\ calls[c].retryCreates <= 1
    /\ (calls[c].pc \in {"send2", "resp2"} /\ calls[c].retryCreates = 0)
         => calls[c].ePings = 1 /\ calls[c].eOk /\ calls[c].ensured = "ready"
    /\ (calls[c].pc = "done" /\ calls[c].sends = 2 /\ calls[c].resp = "ack")
         => calls[c].result = "ok"

\* A call whose first send failed and whose retry was answered.
C3_RetryAnswered ==
  \E c \in CallIds :
    /\ calls[c].pc = "done"
    /\ calls[c].sends = 2
    /\ calls[c].resp = "ack"
    /\ calls[c].result = "ok"
    /\ calls[c].retryCreates = 1

\* C4: an ensureOffscreenDocument call that begins after an earlier call
\* reported ready, the worker staying alive in between and during it, probes
\* the existing instance once and returns ready: it closes nothing and
\* creates nothing, so the two calls together issue what the first issued.
C4_SecondEnsureOnlyProbes ==
  \A c \in CallIds :
    calls[c].stable
      => /\ calls[c].eCreates = 0
         /\ calls[c].eCloses = 0
         /\ calls[c].eProbes = 0
         /\ calls[c].ePings <= 1
         /\ calls[c].ensured # "failed"
         /\ calls[c].ePings = 1 => calls[c].ensured = "ready"
         /\ calls[c].pc \in {"send", "resp", "grace", "done"} => calls[c].ensured = "ready"

\* An ensure call on a live, undisturbed worker has returned.
C4_SecondCallReady ==
  \E c \in CallIds :
    /\ calls[c].stable
    /\ calls[c].ensured = "ready"
    /\ calls[c].ePings = 1

\* C5: one ensureOffscreenDocument call issues at most one createDocument
\* and at most 5 probes after it; it reports ready exactly when a probe of
\* that call answered with success, at once; it reports failure when
\* createDocument is refused or when the 5 probes all failed.
C5_OneCreateFiveProbes ==
  \A c \in CallIds :
    /\ calls[c].eCreates <= 1
    /\ calls[c].eProbes <= 5
    /\ calls[c].eProbes > 0 => calls[c].eCreates = 1
    /\ calls[c].eOk <=> calls[c].ensured = "ready"
    /\ calls[c].pc = "probe" => ~calls[c].eOk /\ calls[c].eProbes < 5
    /\ calls[c].ensured = "failed"
         => calls[c].eCreates = 1 /\ calls[c].eProbes \in {0, 5}

\* An ensure call used up its probes and reported failure.
C5_ProbesExhausted ==
  \E c \in CallIds :
    /\ calls[c].ensured = "failed"
    /\ calls[c].eProbes = 5
    /\ ~calls[c].eOk

\* C6: when ensureOffscreenDocument reports failure, sendMessageToOffscreen
\* sends no request on that attempt: every request that has been sent was
\* sent after an ensure call that reported ready.
C6_NoSendAfterEnsureFailed ==
  \A c \in CallIds :
    calls[c].pc \in {"resp", "resp2"} => calls[c].ensured = "ready"

(***************************************************************************)
(* Properties of the event stream of a generation (specification Spec).    *)
(***************************************************************************)
IsUpdate(e) == e.action = "streamUpdate"
IsComplete(e) == e.action = "streamComplete"
Completes(log) == Len(SelectSeq(log, IsComplete))
Texts(log) == [i \in 1..Len(log) |-> log[i].text]

\* s is t with some elements left out.
RECURSIVE IsSubseq(_, _)
IsSubseq(s, t) ==
  IF s = << >> THEN TRUE
  ELSE IF t = << >> THEN FALSE
  ELSE IF Head(s) = Head(t) THEN IsSubseq(Tail(s), Tail(t))
  ELSE IsSubseq(s, Tail(t))

\* What the worker emitted for generation g: every event is tagged with the
\* key of the request, and a streamComplete comes once, after every
\* streamUpdate.
WorkerOrder(g) ==
  /\ \A i \in 1..Len(wlog[g]) : wlog[g][i].tabId = calls[g[1]].msg.tabId
  /\ Completes(wlog[g]) <= 1
  /\ \A i \in 1..Len(wlog[g]) : IsComplete(wlog[g][i]) => i = Len(wlog[g])

ByUpdate(e) == e.by = "handleStreamUpdate"

\* What the coordinator forwarded for generation g: the streamUpdates it
\* received, in the order it received them, then what handleStreamComplete
\* publishes, the streamComplete last and only after the worker's.
ForwardOrder(g) ==
  /\ IsSubseq(Texts(SelectSeq(uiLog[g], ByUpdate)), Texts(SelectSeq(wlog[g], IsUpdate)))
  /\ \A i, j \in 1..Len(uiLog[g]) :
       (ByUpdate(uiLog[g][j]) /\ ~ByUpdate(uiLog[g][i])) => j < i
  /\ Completes(uiLog[g]) <= 1
  /\ \A i \in 1..Len(uiLog[g]) : IsComplete(uiLog[g][i]) => i = Len(uiLog[g])
  /\ Completes(uiLog[g]) = 1
       => /\ Completes(wlog[g]) = 1
          /\ \A i \in 1..Len(toCoord) : toCoord[i].gen # g

C8_IdleOnlyByComplete ==
  [][\A k \in Keys :
       (streamingState[k] # "idle" /\ streamingState'[k] = "idle")
         => \E g \in GenIds : /\ tasks[g].pc \in {"initDelete", "cleanup"}
                              /\ tasks[g].key = k
                              /\ tasks'[g] # tasks[g]]_vars

\* Something is under way that will handle a streamComplete for key k, or
\* may still produce one.
Pending(k) ==
  \/ \E c \in CallIds : calls[c].pc \notin {"free", "done", "aborted"} /\ calls[c].msg.tabId = k
  \/ \E g \in GenIds : Running(g) /\ gens[g].key = k
  \/ \E i \in 1..Len(toCoord) : toCoord[i].tabId = k
  \/ \E g \in GenIds : tasks[g].pc # "none" /\ tasks[g].key = k

\* C9: every key that enters a streaming phase returns to idle: a key is
\* never left in a streaming phase with nothing under way that would end it.
C9_NoKeyLeftStreaming ==
  \A k \in Keys : streamingState[k] # "idle" => Pending(k)

\* The texts getErrorMessage gives (message keys).
UserFacingTexts ==
  { "error_generic", "error_language_model_unavailable", "error_language_model_failed",
    "error_input_too_large", "error_quota_exceeded", "error_network",
    "error_image_processing", "error_session_not_found" }

\* C10: every failed generation ends with a streamUpdate carrying a
\* user-facing error text followed by a streamComplete carrying the same
\* text, both tagged with the key of the request.
C10_FailureReported ==
  \A g \in GenIds :
    (gens[g].st = "done" /\ gens[g].failed)
      => /\ Len(wlog[g]) >= 2
         /\ LET n == Len(wlog[g])
                u == wlog[g][n - 1]
                e == wlog[g][n]
            IN /\ IsUpdate(u) /\ IsComplete(e)
               /\ u.text = e.text
               /\ ~e.text.ok /\ e.text.err \in UserFacingTexts
               /\ u.tabId = calls[g[1]].msg.tabId
               /\ e.tabId = calls[g[1]].msg.tabId

\* A generation failed after the stream had begun.
C10_FailedGeneration ==
  \E g \in GenIds :
    /\ gens[g].st = "done"
    /\ gens[g].failed
    /\ Len(wlog[g]) = 3

(***************************************************************************)
(* Properties of failure reporting to the UI (specification Spec).         *)
(***************************************************************************)
\* Something of invocation c's request is still under way in the worker or
\* in the coordinator.
RequestUnderWay(c) ==
  \E g \in GenIds :
    /\ g[1] = c
    /\ \/ Running(g)
       \/ tasks[g].pc # "none"
       \/ \E i \in 1..Len(toCoord) : toCoord[i].gen = g

\* C11: when the delivery of a generation request has failed after the
\* retry, the failure is surfaced: the UI receives a streamComplete for the
\* request (or something that will publish one is still under way).
C11_DeliveryFailureSurfaced ==
  \A c \in CallIds :
    (calls[c].pc = "done" /\ calls[c].caller \in UserCallers
       /\ calls[c].result = "failedAfterRetry")
      => \/ RequestUnderWay(c)
         \/ \E g \in GenIds : g[1] = c /\ Completes(uiLog[g]) >= 1

(***************************************************************************)
(* Properties of the session manager (specification SessionSpec).          *)
(***************************************************************************)
\* The chunk is the buffer followed by something: the stream is cumulative
\* at this chunk.
IsCumulative(buffer, chunk) ==
  /\ buffer # << >>
  /\ \E k \in 0..Len(chunk) : chunk = buffer \o SubSeq(chunk, k + 1, Len(chunk))

\* The buffer after the first n chunks of a stream, by the rule.
RECURSIVE Merged(_, _)
Merged(chunks, n) ==
  IF n = 0 THEN << >>
  ELSE LET buffer == Merged(chunks, n - 1) IN
       IF IsCumulative(buffer, chunks[n]) THEN chunks[n] ELSE buffer \o chunks[n]

\* The two calls of the harness.
Runs == << sm.cs, sm.sp >>

\* The run took chunks from the stream and merged each of them.
MergedAll(r) == r.chunkCount > 0 /\ Len(r.callbacks) = r.chunkCount

\* C12: every chunk is merged by the per-chunk rule (the buffer becomes the
\* chunk when the chunk starts with the non-empty buffer, else the chunk is
\* appended); the cumulative, the incremental and the mixed stream of the
\* scenarios give "Hello world", "Hello world" and "Hello world!";
\* createSession and sendPromptStreaming build the same buffer.
C12_ChunkMerge ==
  /\ \A j \in 1..2 : LET r == Runs[j] IN
       /\ MergedAll(r) => r.fullText = Merged(sm.input, r.chunkCount)
       /\ r.chunkCount > 0
            => \A i \in 1..Len(r.callbacks) : r.callbacks[i] = Merged(sm.input, i)
       /\ (r.pc = "done" /\ r.result.success /\ r.chunkCount > 0)
            => /\ r.result.response = Merged(sm.input, Len(sm.input))
               /\ sm.input = << Hello, Hello \o World >> => r.result.response = Hello \o World
               /\ sm.input = << Hello, World >> => r.result.response = Hello \o World
               /\ sm.input = << Hello, Hello \o World, Bang >>
                    => r.result.response = Hello \o World \o Bang
  /\ (MergedAll(sm.cs) /\ MergedAll(sm.sp) /\ sm.cs.chunkCount = sm.sp.chunkCount)
       => sm.cs.fullText = sm.sp.fullText

\* Both calls have merged the mixed stream of the scenario.
C12_MixedStreamMerged ==
  /\ sm.input = << Hello, Hello \o World, Bang >>
  /\ sm.cs.pc = "done" /\ sm.cs.result.success
  /\ sm.sp.pc = "done" /\ sm.sp.result.success
  /\ sm.cs.result.response = Hello \o World \o Bang

(***************************************************************************)
(* Properties of the context chunker (specification ContextSpec).          *)
(***************************************************************************)
Chunked == page.out # << >>
HasSection(label) == \E i \in 1..Len(page.out) : page.out[i].label = label
SectionOf(label) == page.out[CHOOSE i \in 1..Len(page.out) : page.out[i].label = label]

\* C13: the text chunkContext returns, footer included, is never larger
\* than MAX_CONTEXT_SIZE bytes, whatever the page.
C13_WithinBudget == Chunked => ContextBytes(page.out) <= MAX_CONTEXT_SIZE

\* C14: on an article page whose article is larger than what remains after
\* the URL, the title and the footer, the returned context holds a
\* non-empty proper prefix of the article, stays within the budget, ends
\* with the footer and has no META TAGS, HEADINGS or LINKS section.
ArticleTooLarge ==
  /\ Chunked
  /\ page.in.isArticle
  /\ page.in.articleContent # << >>
  /\ getTextSizeInBytes(page.in.articleContent) > Remaining(Preamble(page.in))
IsPrefix(p, t) == Substring(t, Units(p)) = p
C14_TruncatedArticleKept ==
  ArticleTooLarge =>
    /\ HasSection("article")
    /\ SectionOf("article").content # << >>
    /\ SectionOf("article").content # page.in.articleContent
    /\ IsPrefix(SectionOf("article").content, page.in.articleContent)
    /\ ContextBytes(page.out) <= MAX_CONTEXT_SIZE
    /\ page.out[Len(page.out)].label = "footer"
    /\ ~HasSection("meta") /\ ~HasSection("headings") /\ ~HasSection("links")

(***************************************************************************)
(* Properties of the quota checks (specification SessionSpec).             *)
(***************************************************************************)
\* The run was stopped by a quota check made during the stream.
QuotaAbort(r) ==
  /\ r.pc = "done"
  /\ ~r.result.success
  /\ r.result.error = "Quota exceeded during streaming"

\* C15: in both calls the quota is checked during the stream exactly at
\* the chunks whose number is a multiple of QuotaCheckEvery; a run stopped
\* by such a check fails with the quota message, its partial text is the
\* buffer merged from all the chunks received so far, and the callback is
\* not invoked for the chunk of the check nor afterwards.
C15_QuotaRecheck ==
  \A j \in 1..2 : LET r == Runs[j] IN
    /\ r.pc \notin {"none", "start"}
         => /\ Len(r.checks) = 1 + r.chunkCount \div QuotaCheckEvery
            /\ \A i \in 1..Len(r.checks) : r.checks[i] = (i - 1) * QuotaCheckEvery
    /\ QuotaAbort(r)
         => /\ r.result.userMessage = "error_quota_exceeded"
            /\ r.chunkCount % QuotaCheckEvery = 0
            /\ r.result.partialResponse = Merged(sm.input, r.chunkCount)
            /\ Len(r.callbacks) = r.chunkCount - 1

\* The partial text of a run as a text on the bus: the answer made of the
\* chunks merged so far.
PartialText(r) == Answer(Len(r.callbacks))

\* C16: when a generation is stopped by a quota check during the stream,
\* the texts the worker sends for it (the last streamUpdate and the
\* streamComplete) are the partial text, the buffer of the chunks merged
\* before the stop, and not another message.
C16_PartialTextDelivered ==
  \A j \in 1..2 : LET r == Runs[j] IN
    QuotaAbort(r)
      => /\ r.sent # << >>
         /\ r.sent[Len(r.sent)].action = "streamComplete"
         /\ \A i \in 1..Len(r.sent) : r.sent[i].text = PartialText(r)

FailedCreate(g) ==
  /\ gens[g].kind = "create"
  /\ gens[g].st = "done"
  /\ gens[g].failed

C19_KeysIndependent ==
  [][ \A c \in CallIds :
        (calls'[c].pc # calls[c].pc /\ calls'[c].msg.tabId \in Keys)
          => \A B \in Keys \ {calls'[c].msg.tabId} :
               /\ streamingState'[B] = streamingState[B]
               /\ B \in sessionStore => B \in sessionStore'
               /\ \A g \in GenIds :
                    (gens[g].key = B /\ Running(g)) => gens'[g].st # "gone" ]_vars

(***************************************************************************)
(* Properties of the title/actions turn (specification Spec).              *)
(***************************************************************************)
\* The handler of generation g's streamComplete runs its title/actions
\* branch in this step, for a key whose first response was recorded.
MetaCompletes(g) ==
  /\ tasks[g].pc = "meta"
  /\ tasks'[g].pc = "cleanup"
  /\ convData[tasks[g].key].exists
  /\ Truthy(convData[tasks[g].key].firstResponse)

\* The key's durable record holds the title and the actions parsed from a
\* text the turn may have had.
TitlePersisted(g, conv) ==
  /\ conv.exists
  /\ conv.titleResponse \in ShapesOf(tasks[g].text)
  /\ conv.title = parseTitleFromResponse(conv.titleResponse)
  /\ conv.actionButtons = parseActionsFromResponse(conv.titleResponse)
  /\ conv.titleResponse = "quoted"
       => conv.title = Title("A Title", 7) /\ conv.actionButtons = << "Q1", "Q2" >>

\* The handler's last step leaves the key idle.
CleanupIdles ==
  \A g \in GenIds :
    (tasks[g].pc = "cleanup" /\ tasks'[g].pc # "cleanup")
      => streamingState'[tasks[g].key] = "idle"

ReportsStarted(c) ==
  /\ calls[c].pc # "done"
  /\ calls'[c].pc = "done"
  /\ calls'[c].result = "ok"
  /\ isStreamingAction(calls'[c].msg)

\* C21: sendMessageToOffscreen returns a success response for a generation
\* request only if its listener has seen a streamUpdate for the request's
\* key, before the acknowledgment or in the grace window after it.
C21_SuccessOnlyAfterStreamUpdate ==
  [][ \A c \in CallIds : ReportsStarted(c) => calls[c].heard ]_vars

(***************************************************************************)
(* Properties of the deadlines of a generation request (DeadlineSpec).     *)
(***************************************************************************)
\* The invocation has ended and neither attempt was answered: both deadlines
\* expired on a document that had stopped running, so that no streamUpdate
\* was produced for the key either.
NothingArrived(c) ==
  /\ calls[c].pc = "done"
  /\ isStreamingAction(calls[c].msg)
  /\ calls[c].firstErr = "timeout"
  /\ calls[c].resp = "timeout"

EndsAfterOneRetry(c) ==
  /\ calls[c].result = "failedAfterRetry"
  /\ calls[c].cause = "Timeout on retry"
  /\ calls[c].sends = 2
  /\ calls[c].retryCloses = 1
  /\ calls[c].retryEnsures = 1

Begun(c) == calls[c].pc \notin {"free", "analyze", "done"}

\* C22: a generation request for which neither an acknowledgment nor a
\* streamUpdate ever arrives ends in failure, never in success: every
\* invocation that has begun ends, and one whose two deadlines expired has
\* made exactly the first attempt, one recreation cycle and the retry, and
\* reports "Failed after retry".
C22_UnansweredRequestFails ==
  /\ [](\A c \in CallIds : NothingArrived(c) => EndsAfterOneRetry(c))
  /\ \A c \in CallIds : Begun(c) ~> calls[c].pc = "done"

C22_BothDeadlinesExpired ==
  \E c \in CallIds : NothingArrived(c) /\ EndsAfterOneRetry(c)

(***************************************************************************)
(* Properties of a follow-up after the sessions were lost (Spec).          *)
(***************************************************************************)
SessionNotFound(g) ==
  \E i \in 1..Len(wlog[g]) :
    wlog[g][i].text = ErrorText("error_session_not_found")

\* C23: a follow-up for a key whose conversation exists is never answered by
\* the session-not-found failure: if the worker holds no session for the key
\* (it was recreated, or the conversation was restored), the session is
\* rebuilt and the answer generated.
C23_FollowupRebuildsSession ==
  \A g \in GenIds :
    /\ calls[g[1]].caller = "followup"
    /\ conversations[calls[g[1]].msg.tabId].exists
    => ~SessionNotFound(g)

(***************************************************************************)
(* The whole system when tabs may be closed: the host may reclaim the      *)
(* document, and a tab may be removed while a generation runs.             *)
(***************************************************************************)
ClosedTabInit ==
  /\ doc = "live"
  /\ sessionStore = {}
  /\ gens = [g \in GenIds |-> NoGen]
  /\ toCoord = << >>
  /\ wlog = [g \in GenIds |-> << >>]
  /\ calls = [c \in CallIds |-> FreeCall]
  /\ streamingState = [k \in Keys |-> "idle"]
  /\ sessionMeta = [k \in Keys |-> k \in RestoredTabs]
  /\ convData = [k \in Keys |-> IF k \in RestoredTabs THEN RestoredConvData ELSE NoConvData]
  /\ conversations = [k \in Keys |-> IF k \in RestoredTabs THEN StoredConversation
                                                           ELSE NoConversation]
  /\ activeConversations = {}
  /\ tabs = Keys
  /\ tasks = [g \in GenIds |-> NoTask]
  /\ uiLog = [g \in GenIds |-> << >>]
  /\ readySince = TRUE
  /\ faults = 0
  /\ env = [overlap |-> 1, faults |-> {"reclaim"}, budget |-> MaxFaults]
  /\ sm = NoRun
  /\ page = NoPage
  /\ convStore = NoStore
  /\ dropped = NoDropped

ClosedTabNext ==
  \/ HostReclaim
  \/ DocLoaded
  \/ \E c \in CallIds : CallStep(c)
  \/ \E g \in GenIds : GenStart(g)
  \/ \E g \in GenIds : GenChunk(g)
  \/ \E g \in GenIds : GenFinish(g)
  \/ \E g \in GenIds : GenFallback(g)
  \/ \E k \in Keys : AnalyzePage(k, "screenshot")
  \/ \E k \in Keys : FollowupQuestion(k)
  \/ \E c \in CallIds : FollowupSend(c)
  \/ \E k \in Keys : TabRemoved(k)
  \/ HandleStreamUpdate
  \/ HandleStreamComplete
  \/ \E g \in GenIds : HscInitial(g)
  \/ \E g \in GenIds : HscFallback(g)
  \/ \E g \in GenIds : HscInitDelete(g)
  \/ \E g \in GenIds : generateActionButtons(g)
  \/ \E g \in GenIds : HscFollowup(g)
  \/ \E g \in GenIds : HscFollowupSave(g)
  \/ \E g \in GenIds : HscMeta(g)
  \/ \E g \in GenIds : HscCleanup(g)

ClosedTabSpec == ClosedTabInit /\ [][ClosedTabNext]_vars

(***************************************************************************)
(* Properties of a closed tab (ClosedTabSpec).  A tab is removed only      *)
(* when no request is under way, and a removed tab is analysed no more, so *)
(* no createSession for its key is requested after its deleteSession.      *)
(***************************************************************************)
\* The worker has processed a deleteSession for key k.
DeleteProcessed(k) ==
  \E c \in CallIds : calls[c].msg = DeleteMsg(k) /\ calls[c].resp = "ack"

\* C24: once the worker has processed the deleteSession of a closed tab's
\* key, the session store holds no session for that key (no createSession
\* for it is requested afterwards), also when a createSession for the key
\* was still generating at that moment.
C24_NoSessionAfterDelete ==
  \A k \in Keys : DeleteProcessed(k) => k \notin sessionStore

\* C25: while a generation runs for a key whose tab has been closed, the
\* coordinator publishes no streamUpdate and no streamComplete of that
\* generation to the UI bus.
C25_ClosedTabSilent ==
  [][ \A g \in GenIds :
        Running(g) /\ gens[g].key \notin tabs => uiLog'[g] = uiLog[g] ]_vars

(***************************************************************************)
(* Properties of the streaming state machine (Spec).                       *)
(***************************************************************************)
\* C26: between the streamComplete of an initial answer and the recording
\* of the title/actions phase the key is never recorded as idle: while
\* generateActionButtons is pending for a key, the key has a phase.
C26_NoIdleBeforeMeta ==
  \A g \in GenIds :
    tasks[g].pc = "generateActionButtons" => streamingState[tasks[g].key] # "idle"

\* The coordinator handles a streamUpdate of the worker for key k.
UpdateHandled(k) ==
  /\ toCoord # << >>
  /\ Head(toCoord).action = "streamUpdate"
  /\ Head(toCoord).tabId = k
  /\ toCoord' = Tail(toCoord)

\* The event the coordinator published in this step for generation g.
Published(g) == uiLog'[g][Len(uiLog'[g])]

\* C27: a streamUpdate for a key with no recorded phase records the phase
\* streaming-initial for it, and the event is forwarded with the flags of
\* that phase (isFollowup and isActionButtons false); a streamUpdate for a
\* key with a recorded phase leaves the phase as it is.
C27_FirstUpdateRecordsInitial ==
  [][ \A k \in Keys :
        UpdateHandled(k) =>
          /\ streamingState'[k] = IF streamingState[k] = "idle" THEN "initial"
                                                                 ELSE streamingState[k]
          /\ \A j \in Keys \ {k} : streamingState'[j] = streamingState[j]
          /\ LET g == Head(toCoord).gen IN
               streamingState[k] = "idle" /\ Len(uiLog'[g]) > Len(uiLog[g]) =>
                 /\ ~Published(g).isFollowup
                 /\ ~Published(g).isActionButtons ]_vars

C27_PhaseRecordedAndKept ==
  /\ \E g \in GenIds : \E i \in 1..Len(uiLog[g]) :
       /\ uiLog[g][i].action = "streamUpdate"
       /\ uiLog[g][i].by = "handleStreamUpdate"
       /\ ~uiLog[g][i].isFollowup
  /\ \E g \in GenIds : \E i \in 1..Len(uiLog[g]) :
       /\ uiLog[g][i].action = "streamUpdate"
       /\ uiLog[g][i].by = "handleStreamUpdate"
       /\ uiLog[g][i].isActionButtons

\* Whether the text of a title/actions turn holds a title / a list of
\* quoted actions.
HasTitle(response) == response \in {"quoted", "bare", "long"}
HasActions(response) == response \in {"quoted", "long", "untitled"}

\* The handler of a title/actions turn leaves its first part.
MetaHandled(g) == tasks[g].pc = "meta" /\ tasks'[g].pc # "meta"

\* C28: a streamComplete handled in the title/actions phase ends with the
\* key idle whatever the text and whatever failed: the handler goes on to
\* its last step, which records the key as idle.  A conversation it saved
\* has the default title exactly when the text held no title and no actions
\* exactly when the text held no list of actions, each whatever the other.
C28_MetaTurnEndsIdle ==
  [][ \A g \in GenIds :
        /\ MetaHandled(g) =>
             /\ tasks'[g] = [tasks[g] EXCEPT !.pc = "cleanup"]
             /\ LET conv == conversations'[tasks[g].key] IN
                  conv # conversations[tasks[g].key] =>
                    /\ (conv.title = Title("Untitled Conversation", 21))
                         <=> ~HasTitle(conv.titleResponse)
                    /\ (conv.actionButtons = << >>) <=> ~HasActions(conv.titleResponse)
        /\ (tasks[g].pc = "cleanup" /\ tasks'[g] # tasks[g]) =>
             /\ tasks'[g] = NoTask
             /\ streamingState'[tasks[g].key] = "idle" ]_vars

\* Conversations were saved from a text with actions and no title, and the
\* key is idle again; a turn whose save failed has ended idle too.
C28_UntitledWithActions ==
  \E k \in Keys :
    /\ conversations[k].exists
    /\ conversations[k].titleResponse = "untitled"
    /\ conversations[k].title = Title("Untitled Conversation", 21)
    /\ conversations[k].actionButtons = << "Q1", "Q2" >>
    /\ streamingState[k] = "idle"
    /\ \A g \in GenIds : tasks[g] = NoTask

\* The handler of a follow-up answer writes the record and publishes.
FollowupSaved(g) == tasks[g].pc = "followupSave" /\ tasks'[g].pc = "cleanup"

\* C29: on the streamComplete of a follow-up answer for a key with a saved
\* conversation, the answer is appended as one assistant message at the end
\* of the key's durable record and the earlier messages are unchanged (the
\* conversation store accepting the write).
C29_FollowupAnswerAppended ==
  [][ \A g \in GenIds :
        LET k == tasks[g].key IN
          /\ FollowupSaved(g)
          /\ faults' = faults
          /\ convData[k].exists /\ convData[k].conversationId /\ conversations[k].exists
          => conversations'[k].messages =
               Append(conversations[k].messages, Message("assistant", tasks[g].text)) ]_vars

\* The flags of the three streaming phases, as the UI receives them.
FlagsOf(phase) ==
  CASE phase = "initial" -> << FALSE, FALSE >>
    [] phase = "followup" -> << TRUE, FALSE >>
    [] phase = "meta" -> << TRUE, TRUE >>

\* The streamUpdates of generation g the coordinator has handled so far.
UpdatesHandled(g) ==
  Len(SelectSeq(wlog[g], IsUpdate))
    - Cardinality({i \in 1..Len(toCoord) : toCoord[i].gen = g /\ IsUpdate(toCoord[i])})

\* C30: every streamUpdate the coordinator receives is published to the UI
\* bus once, with the same key and text and with the flags of the key's
\* phase at receipt (streaming-initial if none was recorded); the publish is
\* lost only when the bus has no listener, which cannot be while the worker
\* runs.  No other step publishes on behalf of handleStreamUpdate.
C30_UpdateForwardedOnce ==
  /\ [][ \A k \in Keys :
           UpdateHandled(k) =>
             LET ev == Head(toCoord)
                 phase == IF streamingState[k] = "idle" THEN "initial" ELSE streamingState[k]
                 sent == [action |-> "streamUpdate", tabId |-> k, text |-> ev.text,
                          isFollowup |-> FlagsOf(phase)[1],
                          isActionButtons |-> FlagsOf(phase)[2],
                          gen |-> ev.gen, by |-> "handleStreamUpdate"]
             IN \/ uiLog' = [uiLog EXCEPT ![ev.gen] = Append(@, sent)]
                \/ doc # "live" /\ uiLog' = uiLog ]_vars
  /\ [](\A g \in GenIds : Len(SelectSeq(uiLog[g], ByUpdate)) <= UpdatesHandled(g))

\* Generated text was forwarded for an initial answer and for a follow-up
\* answer, each with the flags of its phase.
C30_ForwardedWithPhaseFlags ==
  \A f \in {<< FALSE, FALSE >>, << TRUE, FALSE >>} :
    \E g \in GenIds : \E i \in 1..Len(uiLog[g]) :
      /\ ByUpdate(uiLog[g][i])
      /\ uiLog[g][i].text.ok
      /\ << uiLog[g][i].isFollowup, uiLog[g][i].isActionButtons >> = f

(***************************************************************************)
(* Properties of the probe of an existing instance (DeliverySpec).         *)
(***************************************************************************)
\* C31: an ensureOffscreenDocument call whose probe of the existing instance
\* failed closes that instance before it requests createDocument.
C31_ClosedBeforeCreate ==
  [][ \A c \in CallIds :
        calls[c].pc = "create" /\ calls'[c].eCreates > calls[c].eCreates /\ calls[c].ePings > 0
        => calls[c].eCloses > 0 ]_vars

(***************************************************************************)
(* Properties of the retry path of sendMessageToOffscreen (DeliverySpec).  *)
(***************************************************************************)
\* How a first attempt fails with a transport-class error: no receiving
\* end / no connection, or a deadline that expired.
TransportClass == {"reject", "timeout", "late"}

\* C32: only a transport-class failure of the first attempt starts the
\* close, recreate and retry path.  An invocation whose first attempt got an
\* empty response ends at once with that error: one send, no closeDocument,
\* no ensureOffscreenDocument of the retry path.
C32_OnlyTransportErrorsRetry ==
  \A c \in CallIds :
    /\ (calls[c].retryCloses > 0 \/ calls[c].retryEnsures > 0 \/ calls[c].sends > 1)
         => calls[c].firstErr \in TransportClass
    /\ (calls[c].pc = "done" /\ calls[c].firstErr = None /\ calls[c].resp = "empty")
         => /\ calls[c].result = "error"
            /\ calls[c].cause = IF isStreamingAction(calls[c].msg)
                                  THEN "No acknowledgment from offscreen document"
                                  ELSE "No response from offscreen document"
            /\ calls[c].sends = 1
            /\ calls[c].retryCloses = 0
            /\ calls[c].retryEnsures = 0

\* A generation request and a deleteSession each ended with an empty
\* response to their only send; another invocation went through the retry.
C32_EmptyResponsePropagated ==
  /\ \E c \in CallIds :
       /\ calls[c].pc = "done" /\ calls[c].resp = "empty" /\ calls[c].firstErr = None
       /\ calls[c].sends = 1
  /\ \E c \in CallIds :
       calls[c].pc = "done" /\ calls[c].firstErr \in TransportClass /\ calls[c].sends = 2

(***************************************************************************)
(* Properties of the delivery mode of a request (Spec).                    *)
(***************************************************************************)
\* C33: every createSession and every sendPrompt, the title/actions turn
\* included, is delivered in fire-and-stream mode: while its first attempt
\* awaits the response, the stream listener of the invocation is
\* registered (5 s deadline, the response must carry started).
C33_GenerationRequestsStream ==
  \A c \in CallIds :
    calls[c].pc = "resp" /\ calls[c].msg.action \in {"createSession", "sendPrompt"}
    => calls[c].listening

(***************************************************************************)
(* Properties of a new analysis over a running generation (Spec).          *)
(***************************************************************************)
\* A new initial analysis of the key of generation g was started after the
\* request of g, and its conversation data has been initialised.
Superseded(g) ==
  \E c \in CallIds :
    /\ c > g[1]
    /\ calls[c].msg.action = "createSession"
    /\ calls[c].msg.tabId = tasks[g].key
    /\ calls[c].pc # "analyze"

\* C34: the streamComplete of a generation that a new analysis of the same
\* key has superseded is not handled as the new generation's: it is not
\* recorded as the new conversation's first response and does not lead to
\* the title/actions turn.
C34_EarlierCompleteIgnored ==
  [][ \A g \in GenIds :
        /\ tasks[g].pc = "initial"
        /\ gens[g].kind = "create" /\ gens[g].n >= 1 /\ ~gens[g].failed
        /\ Superseded(g)
        => tasks'[g].pc # "initDelete" ]_vars

(***************************************************************************)
(* Properties of the recorded phase during a generation (Spec).            *)
(***************************************************************************)
\* C35: while a generation requested by the user (createSession or a
\* follow-up sendPrompt) runs in the worker, its key is recorded as
\* non-idle, so that isAnyTabStreaming answers true, also before the first
\* streamUpdate has arrived.
C35_StreamingWhileGenerating ==
  \A g \in GenIds :
    Running(g) /\ calls[g[1]].caller \in UserCallers
    => streamingState[gens[g].key] # "idle"

(***************************************************************************)
(* Properties of the stream callback (SessionSpec).                        *)
(***************************************************************************)
EndsWith(text, chunk) ==
  /\ Len(chunk) <= Len(text)
  /\ SubSeq(text, Len(text) - Len(chunk) + 1, Len(text)) = chunk

\* C36: within one call the text passed to the stream callback after each
\* chunk begins with the text of the previous callback (with nothing, for
\* the first) and ends with the chunk just taken from the stream; the
\* callback is invoked once per merged chunk, that is for every chunk taken
\* except one at which the quota check ended the call.  (A stream that
\* gave no chunk is outside the claim: sendPromptStreaming then falls back
\* to prompt() and passes its answer to the callback.)
C36_CallbackTextGrows ==
  \A j \in 1..2 : LET r == Runs[j] IN
    r.chunkCount > 0 =>
    /\ Len(r.callbacks) \in {r.chunkCount, r.chunkCount - 1}
    /\ Len(r.callbacks) = r.chunkCount - 1
         => r.chunkCount % QuotaCheckEvery = 0 /\ r.pc = "done"
    /\ \A i \in 1..Len(r.callbacks) :
         /\ EndsWith(r.callbacks[i], sm.input[i])
         /\ IF i = 1 THEN r.callbacks[i] = sm.input[1]
                     ELSE StartsWith(r.callbacks[i], r.callbacks[i - 1])

\* Both calls went through the mixed stream of three chunks, one callback
\* per chunk.
C36_ThreeCallbacks ==
  /\ sm.input = << Hello, Hello \o World, Bang >>
  /\ Len(sm.cs.callbacks) = 3 /\ Len(sm.sp.callbacks) = 3
  /\ sm.sp.callbacks[3] = Hello \o World \o Bang

(***************************************************************************)
(* Properties of an initial generation that failed (Spec).                 *)
(***************************************************************************)
\* C37: the streamComplete of an initial generation whose text is an error
\* message is handled as that of an answer: the text is recorded as the
\* key's first response and the handler goes on to the title/actions turn
\* (unless the publish to the UI threw, which needs a worker that is not
\* running); generateActionButtons then records the title/actions phase and
\* sends the turn's sendPrompt.
C37_ErrorTextHandledAsAnswer ==
  [][ \A g \in GenIds :
        LET k == tasks[g].key IN
          /\ (tasks[g].pc = "initial" /\ tasks'[g].pc # "initial"
                /\ ~tasks[g].text.ok /\ k \in tabs)
               => /\ convData[k].exists => convData'[k].firstResponse = tasks[g].text
                  /\ \/ tasks'[g].pc = "initDelete"
                     \/ doc # "live" /\ tasks'[g].pc = "fallback"
          /\ (tasks[g].pc = "generateActionButtons" /\ tasks'[g].pc # "generateActionButtons")
               => /\ streamingState'[k] = "meta"
                  /\ \E c \in CallIds :
                       /\ calls[c].pc = "free"
                       /\ calls'[c].caller = "meta"
                       /\ calls'[c].msg = PromptMsg(k, TRUE) ]_vars

\* After a failed initial generation the error text is the first response
\* of the key, the title/actions turn was requested and has ended, and the
\* key is idle again.
C37_IdleAfterFailedAnalysis ==
  \E k \in Keys :
    /\ convData[k].exists /\ ~convData[k].firstResponse.ok
    /\ \E c \in CallIds : calls[c].caller = "meta" /\ calls[c].msg.tabId = k /\ calls[c].pc = "done"
    /\ \E g \in GenIds : gens[g].key = k /\ gens[g].kind = "prompt" /\ gens[g].st = "done"
    /\ streamingState[k] = "idle"
    /\ toCoord = << >>
    /\ \A g \in GenIds : tasks[g] = NoTask

(***************************************************************************)
(* The durable conversation store: chrome.storage.local "conversations",   *)
(* one list for all keys.  storeConversation and updateConversation read   *)
(* the whole list, change their copy and write it back; each read and each *)
(* write is one step of the storage, and the handlers of different keys    *)
(* run between them.  Storage errors are left out here.                    *)
(***************************************************************************)
MAX_CONVERSATIONS == 50

\* conversations.sort((a, b) => b.timestamp - a.timestamp): newest first,
\* equal timestamps keep their order.
RECURSIVE SortByTimestamp(_)
SortByTimestamp(list) ==
  IF list = << >>
    THEN << >>
    ELSE LET head == Head(list)
             rest == SortByTimestamp(Tail(list))
             n == Cardinality({i \in 1..Len(rest) : rest[i].timestamp > head.timestamp})
         IN  SubSeq(rest, 1, n) \o << head >> \o SubSeq(rest, n + 1, Len(rest))

\* A call for the key is between its first read and its return.
StoreBusy(k) ==
  \E o \in OpIds : convStore.ops[o].key = k /\ convStore.ops[o].pc \notin {"none", "done", "failed"}

\* Calls are numbered in the order they begin.
NextOp(o) ==
  /\ convStore.ops[o].pc = "none"
  /\ \A p \in OpIds : p < o => convStore.ops[p].pc # "none"

\* storeConversation for key k, up to its read of the list.  The caller
\* passes the first answer as the only message.
StoreConversationRead(o, k) ==
  /\ NextOp(o)
  /\ ~StoreBusy(k)
  /\ convStore' = [convStore EXCEPT !.ops[o] =
                     [pc |-> "write", kind |-> "store", key |-> k, id |-> o,
                      messages |-> << o >>, local |-> convStore.list]]
  /\ UNCHANGED << sysVars, sm, page, dropped >>

\* storeConversation from its read to its write: the new conversation goes
\* to the front of the copy, the copy is sorted, cut to MAX_CONVERSATIONS
\* and written.
StoreConversationWrite(o) ==
  LET op == convStore.ops[o]
      t == convStore.clock + 1
      conversation == [id |-> op.id, tabId |-> op.key, messages |-> op.messages, timestamp |-> t]
      sorted == SortByTimestamp(<< conversation >> \o op.local)
      kept == IF Len(sorted) > MAX_CONVERSATIONS THEN SubSeq(sorted, 1, MAX_CONVERSATIONS) ELSE sorted
  IN  /\ op.pc = "write" /\ op.kind = "store"
      /\ convStore' = [convStore EXCEPT !.list = kept, !.clock = t, !.ops[o].pc = "verify"]
      /\ UNCHANGED << sysVars, sm, page, dropped >>

\* storeConversation, the verifying read and the return of the id.
StoreConversationVerify(o) ==
  /\ convStore.ops[o].pc = "verify"
  /\ convStore' = [convStore EXCEPT !.ops[o].pc = "done", !.returned = @ \cup {convStore.ops[o].id}]
  /\ UNCHANGED << sysVars, sm, page, dropped >>

\* The callers of updateConversation (the follow-up question and the
\* follow-up answer): getConversation(id), and when it finds the
\* conversation, its messages with one more appended are the update.
GetConversation(o, id) ==
  /\ NextOp(o)
  /\ id \in convStore.returned
  /\ ~StoreBusy(convStore.ops[id].key)
  /\ \E i \in 1..Len(convStore.list) :
       /\ convStore.list[i].id = id
       /\ convStore' = [convStore EXCEPT !.ops[o] =
                          [pc |-> "read", kind |-> "update", key |-> convStore.ops[id].key, id |-> id,
                           messages |-> Append(convStore.list[i].messages, o), local |-> << >>]]
  /\ UNCHANGED << sysVars, sm, page, dropped >>

\* updateConversation up to its read of the list and findIndex: "Conversation
\* not found" is thrown when the id is not in the list read.
UpdateConversationRead(o) ==
  LET op == convStore.ops[o] IN
    /\ op.pc = "read" /\ op.kind = "update"
    /\ convStore' = IF \E i \in 1..Len(convStore.list) : convStore.list[i].id = op.id
                      THEN [convStore EXCEPT !.ops[o].pc = "write", !.ops[o].local = convStore.list]
                      ELSE [convStore EXCEPT !.ops[o].pc = "failed"]
    /\ UNCHANGED << sysVars, sm, page, dropped >>

\* updateConversation from its read to its write: the entry of the copy is
\* replaced by the entry with the updates, the copy is sorted and written.
UpdateConversationWrite(o) ==
  LET op == convStore.ops[o]
      updated == [i \in 1..Len(op.local) |->
                    IF op.local[i].id = op.id
                      THEN [op.local[i] EXCEPT !.messages = op.messages]
                      ELSE op.local[i]]
  IN  /\ op.pc = "write" /\ op.kind = "update"
      /\ convStore' = [convStore EXCEPT !.list = SortByTimestamp(updated), !.ops[o].pc = "done"]
      /\ UNCHANGED << sysVars, sm, page, dropped >>

StoreInit ==
  /\ SysQuiet
  /\ sm = NoRun
  /\ page = NoPage
  /\ convStore = NoStore
  /\ dropped = NoDropped

StoreNext ==
  \/ \E o \in OpIds, k \in Keys : StoreConversationRead(o, k)
  \/ \E o \in OpIds : StoreConversationWrite(o)
  \/ \E o \in OpIds : StoreConversationVerify(o)
  \/ \E o \in OpIds, id \in OpIds : GetConversation(o, id)
  \/ \E o \in OpIds : UpdateConversationRead(o)
  \/ \E o \in OpIds : UpdateConversationWrite(o)

StoreSpec == StoreInit /\ [][StoreNext]_vars

\* Every call of the store has returned or thrown.
StoreQuiet == \A o \in OpIds : convStore.ops[o].pc \in {"none", "done", "failed"}

\* The list holds the conversation the call stored or updated, with the
\* message the call gave it.
InList(o) ==
  \E i \in 1..Len(convStore.list) :
    /\ convStore.list[i].id = convStore.ops[o].id
    /\ \E j \in 1..Len(convStore.list[i].messages) : convStore.list[i].messages[j] = o

\* C38: when calls of storeConversation and updateConversation for different
\* keys interleave, then once all calls have finished the list holds every
\* conversation stored and every message appended by a call that returned.
C38_NoUpdateLost ==
  StoreQuiet => \A o \in OpIds : convStore.ops[o].pc = "done" => InList(o)

\* All calls have returned, two of them for different keys overlapped, and
\* the conversation one of them stored is not in the list.
C38_StoredConversationLost ==
  /\ StoreQuiet
  /\ \E o \in OpIds :
       /\ convStore.ops[o].pc = "done" /\ convStore.ops[o].kind = "store"
       /\ \A i \in 1..Len(convStore.list) : convStore.list[i].id # o

\* All calls have returned and the message an updateConversation wrote for
\* one key is gone, overwritten by a storeConversation for the other key.
C38_AppendedMessageLost ==
  /\ StoreQuiet
  /\ \E o \in OpIds :
       /\ convStore.ops[o].pc = "done" /\ convStore.ops[o].kind = "update"
       /\ \E i \in 1..Len(convStore.list) : convStore.list[i].id = convStore.ops[o].id
       /\ ~InList(o)

(***************************************************************************)
(* Follow-up questions the coordinator cannot process (FollowupSpec): the   *)
(* extension without faults, tab 2 restored with its session metadata,     *)
(* tab 1 not analysed, and followupQuestion messages of every shape.        *)
(***************************************************************************)
\* A followupQuestion message: tabId 0 is a message without tabId; the
\* question is missing ("none"), the empty string or a text.
FollowupMessages == [tabId : Keys \cup {0}, question : {"none", "empty", "text"}]

\* A variant that records the follow-up phase before it has looked for
\* the session metadata and the question.
FollowupRejectedAfterSet(m) ==
  /\ \E active \in tabs \cup {0} :
       LET tabId == IF m.tabId # 0 THEN m.tabId ELSE active IN
         /\ \/ tabId = 0
            \/ tabId # 0 /\ ~sessionMeta[tabId]
            \/ m.question # "text"
         /\ dropped' = [tabId |-> m.tabId, question |-> m.question, resolved |-> tabId]
         /\ streamingState' = IF tabId # 0
                                THEN [streamingState EXCEPT ![tabId] = "followup"]
                                ELSE streamingState
  /\ UNCHANGED << doc, workerVars, calls, sessionMeta, convData, conversations,
                  activeConversations, tabs, tasks, uiLog, readySince, faults, env,
                  sm, page, convStore >>

\* handleFollowupQuestion, its three early returns: the tab id is
\* message.tabId or else the id of the active tab (there may be none); the
\* handler returns when there is no tab id, when getSessionMetadata finds
\* nothing or when the question is falsy.  FollowupQuestion is the handler
\* past these returns.
FollowupRejected(m) ==
  /\ \E active \in tabs \cup {0} :
       LET tabId == IF m.tabId # 0 THEN m.tabId ELSE active IN
         /\ \/ tabId = 0
            \/ tabId # 0 /\ ~sessionMeta[tabId]
            \/ m.question # "text"
         /\ dropped' = [tabId |-> m.tabId, question |-> m.question, resolved |-> tabId]
  /\ UNCHANGED << sysVars, sm, page, convStore >>

FollowupInit ==
  /\ doc = "live"
  /\ sessionStore = {}
  /\ gens = [g \in GenIds |-> NoGen]
  /\ toCoord = << >>
  /\ wlog = [g \in GenIds |-> << >>]
  /\ calls = [c \in CallIds |-> FreeCall]
  /\ streamingState = [k \in Keys |-> "idle"]
  /\ sessionMeta = [k \in Keys |-> k \in RestoredTabs]
  /\ convData = [k \in Keys |-> IF k \in RestoredTabs THEN RestoredConvData ELSE NoConvData]
  /\ conversations = [k \in Keys |-> IF k \in RestoredTabs THEN StoredConversation
                                                           ELSE NoConversation]
  /\ activeConversations = {}
  /\ tabs = Keys
  /\ tasks = [g \in GenIds |-> NoTask]
  /\ uiLog = [g \in GenIds |-> << >>]
  /\ readySince = TRUE
  /\ faults = 0
  /\ env = [overlap |-> 1, faults |-> {}, budget |-> 0]
  /\ sm = NoRun
  /\ page = NoPage
  /\ convStore = NoStore
  /\ dropped = NoDropped

FollowupNext ==
  \/ \E m \in FollowupMessages : FollowupRejected(m)
  \/ \E k \in Keys : FollowupQuestion(k)
  \/ \E c \in CallIds : FollowupSend(c)
  \/ \E k \in Keys : AnalyzePage(k, "screenshot")
  \/ \E c \in CallIds : AnalyzeSend(c)
  \/ \E c \in CallIds : EnsureGetContexts(c)
  \/ \E c \in CallIds : EnsurePingExisting(c)
  \/ \E c \in CallIds : SendFirst(c)
  \/ \E c \in CallIds : AwaitFirst(c)
  \/ \E k \in Keys : TabRemoved(k)
  \/ \E g \in GenIds : GenStart(g)
  \/ \E g \in GenIds : GenChunk(g)
  \/ \E g \in GenIds : GenFinish(g)
  \/ \E g \in GenIds : GenFallback(g)
  \/ HandleStreamUpdate
  \/ HandleStreamComplete
  \/ \E g \in GenIds : HscInitial(g)
  \/ \E g \in GenIds : HscFallback(g)
  \/ \E g \in GenIds : HscInitDelete(g)
  \/ \E g \in GenIds : generateActionButtons(g)
  \/ \E g \in GenIds : HscFollowup(g)
  \/ \E g \in GenIds : HscFollowupSave(g)
  \/ \E g \in GenIds : HscMeta(g)
  \/ \E g \in GenIds : HscCleanup(g)

FollowupSpec == FollowupInit /\ [][FollowupNext]_vars

\* C39: a followupQuestion the coordinator cannot process (no tab id, no
\* session metadata for the tab, or no question) changes nothing: the
\* recorded phases, the durable records, the worker and the invocations of
\* the delivery layer are as before, so nothing is sent to the worker.  And
\* a follow-up request is begun only for a key that has session metadata.
C39_RejectedFollowupChangesNothing ==
  [][ /\ dropped' # dropped
           => UNCHANGED << streamingState, conversations, convData, sessionMeta,
                           doc, sessionStore, gens, toCoord, wlog, calls, tasks, uiLog >>
      /\ \A c \in CallIds :
           calls[c].pc = "free" /\ calls'[c].caller = "followup"
             => sessionMeta[calls'[c].msg.tabId] ]_vars

\* A follow-up without a question was returned on for tab 2 while the
\* answer to an earlier follow-up of tab 2 was being generated: the phase
\* of the key is still the follow-up phase.
C39_RejectedWhileStreaming ==
  /\ dropped.resolved = 2 /\ dropped.question # "text"
  /\ streamingState[2] = "followup"
  /\ \E g \in GenIds : Running(g) /\ gens[g].key = 2

====
